---- MODULE Spec2Model ----
(***************************************************************************)
(* A model of the graph-rewrite pass engine of the Compass unified parser: *)
(* the back passes (UnifiedParser/front_end/onnx/passes/back_passes.py)    *)
(* and front passes (AIPUBuilder/Parser/front_end/onnx/passes/             *)
(* front_passes.py).                                                       *)
(*                                                                         *)
(* A graph is a record                                                     *)
(*   node  : a function from the node names of the graph to the node's     *)
(*           operator record (kind, ok = "the operator object is not None",*)
(*           and the attributes the modelled passes read),                 *)
(*   edges : a set of edges [src, dst, key, sp, dp] (sp = src_out_port,    *)
(*           dp = dst_in_port, key disambiguates parallel edges),          *)
(*   outs  : graph._attr['output_names'], an ordered sequence.             *)
(*                                                                         *)
(* One execution of a pass is computed on a run record                     *)
(*   g       : the graph so far,                                           *)
(*   exc     : an exception left the pass (the pass stopped at that point),*)
(*   crn     : number of calls of clear_redundant_nodes,                   *)
(*   inloop  : clear_redundant_nodes was called inside the per-match loop, *)
(*   diag    : number of diagnostics (WARN/ERROR) reported,                *)
(*   partial : a match was abandoned after the graph had been changed for  *)
(*             it,                                                         *)
(*   hit     : number of matches rewritten.                                *)
(***************************************************************************)
EXTENDS Integers, Sequences, FiniteSets, TLC

\* Bounds of the model.
MaxNodes == 18      \* node names are 1..MaxNodes
MaxPasses == 2      \* passes applied one after another to one seed graph
MaxGroups == 4      \* the largest max_groups merge_group_conv is called with

Ids == 1..MaxNodes

VARIABLES g, last, steps, drv

vars == <<g, last, steps, drv>>

-----------------------------------------------------------------------------
(* Graph store, node registry, reachability and cleanup.                   *)

Nodes(gr) == DOMAIN gr.node

Kind(gr, n) == gr.node[n].kind

\* NodeWrap(graph, n)['object'] is None
ObjNone(gr, n) == ~gr.node[n].ok

\* A node's operator record with default attributes.
Op(k) ==
    [kind |-> k, ok |-> TRUE, keepdims |-> TRUE, shapes |-> TRUE,
     method |-> "", flat |-> "", rank |-> 4, perm |-> 0, hasw |-> FALSE, hasb |-> FALSE,
     value |-> 0, split |-> 0, group |-> 1, activations |-> "NONE", quantize |-> FALSE,
     body |-> {}, body_outs |-> << >>, root_in |-> 0]

\* A node that add_edge created and no replace_obj initialised yet.
Uninit == [Op("") EXCEPT !.ok = FALSE]

Edge(s, d, k, sp, dp) == [src |-> s, dst |-> d, key |-> k, sp |-> sp, dp |-> dp]

InEdges(gr, n) == {e \in gr.edges : e.dst = n}

OutEdges(gr, n) == {e \in gr.edges : e.src = n}

InLess(e, f) ==
    \/ e.dp < f.dp
    \/ e.dp = f.dp /\ e.src < f.src
    \/ e.dp = f.dp /\ e.src = f.src /\ e.key < f.key

OutLess(e, f) ==
    \/ e.sp < f.sp
    \/ e.sp = f.sp /\ e.dst < f.dst
    \/ e.sp = f.sp /\ e.dst = f.dst /\ e.key < f.key

RECURSIVE SortIn(_)
SortIn(S) ==
    IF S = {} THEN <<>>
    ELSE LET m == CHOOSE e \in S : \A f \in S \ {e} : InLess(e, f)
         IN  <<m>> \o SortIn(S \ {m})

RECURSIVE SortOut(_)
SortOut(S) ==
    IF S = {} THEN <<>>
    ELSE LET m == CHOOSE e \in S : \A f \in S \ {e} : OutLess(e, f)
         IN  <<m>> \o SortOut(S \ {m})

\* graph.sorted_in_edges(n): the in-edges ordered by dst_in_port.
sorted_in_edges(gr, n) == SortIn(InEdges(gr, n))

\* graph.sorted_out_edges(n): the out-edges ordered by src_out_port.
sorted_out_edges(gr, n) == SortOut(OutEdges(gr, n))

FreeKey(gr, s, d) ==
    LET used == {e.key : e \in {x \in gr.edges : x.src = s /\ x.dst = d}}
    IN  CHOOSE k \in 0..Cardinality(used) : k \notin used

\* graph.add_edge(src, dst, src_out_port=sp, dst_in_port=dp): missing end
\* points are created as uninitialised nodes; the next free key is used.
add_edge(gr, s, d, sp, dp) ==
    LET missing == {s, d} \ Nodes(gr)
        node2   == [n \in Nodes(gr) \cup missing |->
                       IF n \in Nodes(gr) THEN gr.node[n] ELSE Uninit]
    IN  [gr EXCEPT !.node = node2,
                   !.edges = @ \cup {Edge(s, d, FreeKey(gr, s, d), sp, dp)}]

\* graph.remove_edge(src, dst): removes one edge src -> dst (the one added
\* last); removing an edge that does not exist is a silent no-op.
remove_edge(gr, s, d) ==
    LET es == {e \in gr.edges : e.src = s /\ e.dst = d}
    IN  IF es = {} THEN gr
        ELSE LET e == CHOOSE x \in es : \A y \in es : y.key <= x.key
             IN  [gr EXCEPT !.edges = @ \ {e}]

\* graph.remove_edge(src, dst, key=k)
remove_edge_key(gr, s, d, k) ==
    [gr EXCEPT !.edges = {e \in @ : ~(e.src = s /\ e.dst = d /\ e.key = k)}]

\* graph.remove_edges_from(edges)
remove_edges_from(gr, es) == [gr EXCEPT !.edges = @ \ es]

\* graph.remove_nodes_from(ns): the nodes go, with the edges at them.
remove_nodes_from(gr, ns) ==
    [gr EXCEPT !.node = [n \in Nodes(gr) \ ns |-> gr.node[n]],
               !.edges = {e \in @ : e.src \notin ns /\ e.dst \notin ns}]

remove_node(gr, n) == remove_nodes_from(gr, {n})

\* NodeWrap(graph, n).replace_obj(kind, attrs): the node keeps its name and
\* its edges, the operator payload is replaced.
replace_obj(gr, n, o) == [gr EXCEPT !.node[n] = o]

\* get_valid_node_name(graph, base): a name no node of the graph has.
get_valid_node_name(gr) == CHOOSE n \in Ids \ Nodes(gr) : \A m \in Ids \ Nodes(gr) : n <= m

Room(gr, k) == Cardinality(Ids \ Nodes(gr)) >= k

RECURSIVE Ancestors(_, _)
Ancestors(gr, S) ==
    LET T == S \cup {e.src : e \in {x \in gr.edges : x.dst \in S}}
    IN  IF T = S THEN S ELSE Ancestors(gr, T)

\* has_path(graph, a, b)
has_path(gr, a, b) == a \in Ancestors(gr, {b})

SeqSet(s) == {s[i] : i \in 1..Len(s)}

\* a cleanup that keeps the outputs and their direct producers only
clear_redundant_nodes_shallow(gr) ==
    LET outs == {gr.outs[i] : i \in 1..Len(gr.outs)} \cap Nodes(gr)
        keep == outs \cup {e.src : e \in {x \in gr.edges : x.dst \in outs}}
    IN  remove_nodes_from(gr, Nodes(gr) \ keep)

\* clear_redundant_nodes(graph): removes every node that is not reachable
\* backward from graph._attr['output_names'].
clear_redundant_nodes(gr) ==
    LET keep == Ancestors(gr, SeqSet(gr.outs) \cap Nodes(gr))
    IN  remove_nodes_from(gr, Nodes(gr) \ keep)

\* remove_node_safely(graph, n): the node's first input is connected to the
\* node's consumers, then the node is removed.
remove_node_safely(gr, n) ==
    LET ins  == sorted_in_edges(gr, n)
        outs == OutEdges(gr, n)
        byp  == IF ins = <<>> THEN {}
                ELSE {Edge(ins[1].src, e.dst, e.key, ins[1].sp, e.dp) : e \in outs}
    IN  remove_node([gr EXCEPT !.edges = @ \cup byp], n)

\* output_names[output_names.index(a)] = b, when a is in output_names
Index(s, a) == CHOOSE i \in 1..Len(s) : s[i] = a /\ \A j \in 1..(i - 1) : s[j] # a

ReplaceOut(gr, a, b) ==
    IF a \in SeqSet(gr.outs)
    THEN [gr EXCEPT !.outs[Index(gr.outs, a)] = b]
    ELSE gr

-----------------------------------------------------------------------------
(* One execution of a pass.                                                *)

Start(gr) ==
    [g |-> gr, exc |-> FALSE, crn |-> 0, inloop |-> FALSE, diag |-> 0,
     partial |-> FALSE, hit |-> 0, plugin |-> FALSE, arg |-> 0]

\* a call of clear_redundant_nodes; inl: the call is inside the match loop
Crn(r, inl) ==
    [r EXCEPT !.g = clear_redundant_nodes(r.g), !.crn = @ + 1,
              !.inloop = @ \/ inl]

Warn(r) == [r EXCEPT !.diag = @ + 1]

Raise(r) == [r EXCEPT !.exc = TRUE]

Hit(r, gr) == [r EXCEPT !.g = gr, !.hit = @ + 1]

\* the nodes of kind k, in node order
RECURSIVE SetToSeq(_)
SetToSeq(S) ==
    IF S = {} THEN <<>>
    ELSE LET m == CHOOSE x \in S : \A y \in S : x <= y
         IN  <<m>> \o SetToSeq(S \ {m})

single_node_matcher(gr, k) == SetToSeq({n \in Nodes(gr) : Kind(gr, n) = k})

\* the matches of a two-role pattern, as pairs <<a, b>>, in node order
PairLess(p, q) == p[1] < q[1] \/ (p[1] = q[1] /\ p[2] < q[2])

RECURSIVE PairsToSeq(_)
PairsToSeq(S) ==
    IF S = {} THEN <<>>
    ELSE LET m == CHOOSE p \in S : \A q \in S \ {p} : PairLess(p, q)
         IN  <<m>> \o PairsToSeq(S \ {m})

\* two_nodes_matcher(graph, ka, kb): an edge a -> b with any ports
two_nodes_matcher(gr, ka, kb) ==
    PairsToSeq({p \in Nodes(gr) \X Nodes(gr) :
                  /\ p[1] # p[2]
                  /\ Kind(gr, p[1]) = ka /\ Kind(gr, p[2]) = kb
                  /\ \E e \in gr.edges : e.src = p[1] /\ e.dst = p[2]})

-----------------------------------------------------------------------------
(* merge_rsqrt: Sqrt -> Reciprocal becomes ArmRsqrt.                       *)

RECURSIVE MoveOutEdges(_, _, _, _)
\* for _, dst, out_attr in es: remove_edge(from, dst); add_edge(to, dst, **out_attr)
MoveOutEdges(gr, es, from, to) ==
    IF es = <<>> THEN gr
    ELSE MoveOutEdges(add_edge(remove_edge(gr, from, Head(es).dst),
                               to, Head(es).dst, Head(es).sp, Head(es).dp),
                      Tail(es), from, to)

\* a fusion that renames Sqrt and drops Reciprocal with its out-edges
merge_rsqrt_match_drop(r, m) ==
    IF m[1] \notin Nodes(r.g) \/ m[2] \notin Nodes(r.g) THEN r
    ELSE Hit(r, ReplaceOut(remove_node(replace_obj(r.g, m[1],
                                           [r.g.node[m[1]] EXCEPT !.kind = "ArmRsqrt"]),
                                       m[2]),
                           m[2], m[1]))

merge_rsqrt_match(r, m) ==
    LET gr == r.g
        sqrt == m[1]
        reciprocal == m[2]
    IN  IF sqrt \notin Nodes(gr) \/ reciprocal \notin Nodes(gr) THEN r
        ELSE IF ObjNone(gr, sqrt) \/ ObjNone(gr, reciprocal) THEN r
        ELSE IF Len(sorted_out_edges(gr, sqrt)) # 1 THEN r
        ELSE LET g1 == MoveOutEdges(gr, sorted_out_edges(gr, reciprocal), reciprocal, sqrt)
                 g2 == replace_obj(g1, sqrt, [gr.node[sqrt] EXCEPT !.kind = "ArmRsqrt"])
                 g3 == remove_node_safely(g2, reciprocal)
                 g4 == ReplaceOut(g3, reciprocal, sqrt)
             IN  Hit(r, g4)

RECURSIVE merge_rsqrt_loop(_, _)
merge_rsqrt_loop(r, ms) ==
    IF ms = <<>> \/ r.exc THEN r
    ELSE merge_rsqrt_loop(merge_rsqrt_match(r, Head(ms)), Tail(ms))

merge_rsqrt(gr) ==
    merge_rsqrt_loop(Start(gr), two_nodes_matcher(gr, "Sqrt", "Reciprocal"))

-----------------------------------------------------------------------------
(* merge_square2: Mul(x, x) becomes ArmSquare(x).                          *)

\* a rewrite that renames every valid Mul and keeps both in-edges
merge_square2_match_keep(r, mul) ==
    IF ObjNone(r.g, mul) THEN Warn(r)
    ELSE Hit(r, replace_obj(r.g, mul, [r.g.node[mul] EXCEPT !.kind = "ArmSquare"]))

merge_square2_match(r, mul) ==
    LET gr == r.g
        ins == sorted_in_edges(gr, mul)
    IN  IF ObjNone(gr, mul) \/ Len(ins) # 2 THEN Warn(r)
        ELSE IF ins[1].src # ins[2].src \/ ins[1].sp # ins[2].sp THEN r
        ELSE Hit(r, replace_obj(remove_edge_key(gr, ins[2].src, mul, ins[2].key),
                                mul, [gr.node[mul] EXCEPT !.kind = "ArmSquare"]))

RECURSIVE merge_square2_loop(_, _)
merge_square2_loop(r, ms) ==
    IF ms = <<>> \/ r.exc THEN r
    ELSE merge_square2_loop(merge_square2_match(r, Head(ms)), Tail(ms))

merge_square2(gr) ==
    LET r == merge_square2_loop(Start(gr), single_node_matcher(gr, "Mul"))
    IN  IF r.hit > 0 /\ ~r.exc THEN Crn(r, FALSE) ELSE r

-----------------------------------------------------------------------------
(* Operator kinds.                                                         *)

\* isinstance(obj, ArmOp): the kinds of the target IR
ArmKinds ==
    {"ArmRsqrt", "ArmSquare", "ArmCumulate", "ArmReduce", "ArmMoments",
     "ArmConstant", "ArmTranspose", "ArmReshape", "ArmCast", "ArmEltwise",
     "ArmSplit", "ArmConcat", "ArmMaxUnpool", "ArmLogical", "ArmPow",
     "ArmActivation", "ArmConvolution", "ArmTile"}

IsArm(k) == k \in ArmKinds

\* type(obj).num_in_ports(): the declared input count, negative when the
\* operator's input is variadic
NumInPorts(k) ==
    CASE k \in {"ArmConcat", "Concat", "Out", ""} -> -1
      [] k \in {"ArmConstant", "Constant", "Input", "Dummy"} -> 0
      [] k \in {"ArmEltwise", "ArmMaxUnpool", "ArmLogical", "ArmPow", "Mul",
                "Greater", "Less", "Equal", "Or", "CumSum", "CumProd",
                "Reshape", "MatMul"} -> 2
      [] k \in {"Conv", "DequantizeLinear", "QuantizeLinear"} -> 3
      [] k \in {"QLinearMatMul"} -> 8
      [] OTHER -> 1

Variadic(k) == NumInPorts(k) < 0

\* obj.get_out_ports(): the output ports in use, ascending
RECURSIVE SortNat(_)
SortNat(S) ==
    IF S = {} THEN <<>>
    ELSE LET m == CHOOSE x \in S : \A y \in S : x <= y
         IN  <<m>> \o SortNat(S \ {m})

get_out_ports(gr, n) == SortNat({e.sp : e \in OutEdges(gr, n)})

\* insert_constant(graph, name, value, dst, in_port): a new Constant node
\* feeding dst on in_port
insert_constant(gr, dst, in_port) ==
    LET c == get_valid_node_name(gr)
    IN  replace_obj(add_edge(gr, c, dst, 0, in_port), c, Op("Constant"))

\* insert_reshape_after(graph, src, new_dim, out_port=p): a new Reshape
\* node (with its shape Constant on port 1) takes over the out-edges of src
\* at out_port; the result is <<graph, name of the Reshape>>.
RECURSIVE MovePortEdges(_, _, _, _)
MovePortEdges(gr, es, from, to) ==
    IF es = <<>> THEN gr
    ELSE MovePortEdges(add_edge(remove_edge_key(gr, from, Head(es).dst, Head(es).key),
                                to, Head(es).dst, 0, Head(es).dp),
                       Tail(es), from, to)

insert_reshape_after(gr, src, p) ==
    LET reshape == get_valid_node_name(gr)
        es == SortOut({e \in OutEdges(gr, src) : e.sp = p})
        g1 == replace_obj(add_edge(MovePortEdges(gr, es, src, reshape),
                                   src, reshape, p, 0),
                          reshape, Op("Reshape"))
    IN  <<insert_constant(g1, reshape, 1), reshape>>

\* a match is abandoned with a diagnostic; g0 is the graph as it was when the
\* pass started on the match
Abandon(r, g0) == [Warn(r) EXCEPT !.partial = @ \/ (r.g # g0)]

-----------------------------------------------------------------------------
(* rename_cum: CumProd / CumSum become ArmCumulate.                        *)

rename_cum_match(r, cum) ==
    LET gr == r.g
        ins == sorted_in_edges(gr, cum)
    IN  IF ObjNone(gr, cum)
        THEN Raise(r)            \* the WARN formats the undefined name "bit"
        ELSE IF Kind(gr, cum) = "CumSum" /\ Len(ins) < 2
        THEN Raise(r)            \* in_edges[1]
        ELSE Hit(r, replace_obj(gr, cum,
                     [gr.node[cum] EXCEPT !.kind = "ArmCumulate",
                          !.method = IF Kind(gr, cum) = "CumProd" THEN "PROD" ELSE "SUM"]))

RECURSIVE rename_cum_loop(_, _)
rename_cum_loop(r, ms) ==
    IF ms = <<>> \/ r.exc THEN r
    ELSE rename_cum_loop(rename_cum_match(r, Head(ms)), Tail(ms))

rename_cum(gr) ==
    rename_cum_loop(Start(gr), single_node_matcher(gr, "CumProd")
                                 \o single_node_matcher(gr, "CumSum"))

-----------------------------------------------------------------------------
(* rename_reduce: the Reduce* kinds become ArmReduce, followed by a        *)
(* Reshape when keepdims was false.                                        *)

ReduceKinds == <<"ReduceAll", "ReduceAny", "ReduceMean", "ReduceMin", "ReduceMax",
                 "ReduceProd", "ReduceSum", "ReduceL1", "ReduceL2", "ReduceVariance">>

rename_reduce_match(r, reduce) ==
    LET gr == r.g
        obj == gr.node[reduce]
    IN  IF ObjNone(gr, reduce)
        THEN Raise(r)            \* reduce_obj.copied_attr() on None
        ELSE LET g1 == replace_obj(gr, reduce,
                         [obj EXCEPT !.kind = "ArmReduce", !.keepdims = TRUE,
                                     !.method = obj.kind])
                 r1 == Hit(r, g1)
             IN  IF obj.keepdims THEN r1
                 ELSE IF obj.shapes
                 THEN LET ir == insert_reshape_after(g1, reduce, 0)
                      IN  [r1 EXCEPT !.g = ReplaceOut(ir[1], reduce, ir[2])]
                 ELSE Abandon(r1, gr)

RECURSIVE rename_reduce_loop(_, _)
rename_reduce_loop(r, ms) ==
    IF ms = <<>> \/ r.exc THEN r
    ELSE rename_reduce_loop(rename_reduce_match(r, Head(ms)), Tail(ms))

\* for op_type in reduce_methods: the matches are taken kind by kind, each
\* kind's matches on the graph as the earlier kinds left it
RECURSIVE rename_reduce_kinds(_, _)
rename_reduce_kinds(r, ks) ==
    IF ks = <<>> \/ r.exc THEN r
    ELSE rename_reduce_kinds(
             rename_reduce_loop(r, single_node_matcher(r.g, Head(ks))), Tail(ks))

rename_reduce(gr) == rename_reduce_kinds(Start(gr), ReduceKinds)

-----------------------------------------------------------------------------
(* rename_moments: Moments becomes ArmMoments, each output followed by a   *)
(* Reshape when keepdims was false.                                        *)

\* for out_port in get_out_ports(): insert_reshape_after(...); the result is
\* <<graph, the Reshape names in port order>>
RECURSIVE moments_reshapes(_, _, _, _)
moments_reshapes(gr, moments, ports, acc) ==
    IF ports = <<>> THEN <<gr, acc>>
    ELSE LET ir == insert_reshape_after(gr, moments, Head(ports))
         IN  moments_reshapes(ir[1], moments, Tail(ports), Append(acc, ir[2]))

\* for reshape in post_reshapes: output_names[index] = reshape; index += 1
\* (index counts from 1 here); an index past the end raises IndexError
RECURSIVE moments_outs(_, _, _)
moments_outs(r, index, names) ==
    IF names = <<>> THEN r
    ELSE IF index > Len(r.g.outs) THEN Raise(r)
    ELSE moments_outs([r EXCEPT !.g.outs[index] = Head(names)], index + 1, Tail(names))

RemoveAt(s, i) == SubSeq(s, 1, i - 1) \o SubSeq(s, i + 1, Len(s))

rename_moments_match(r, moments) ==
    LET gr == r.g
        obj == gr.node[moments]
    IN  IF ObjNone(gr, moments) THEN Warn(r)
        ELSE LET g1 == replace_obj(gr, moments,
                         [obj EXCEPT !.kind = "ArmMoments", !.keepdims = TRUE])
                 r1 == Hit(r, g1)
             IN  IF obj.keepdims THEN r1
                 ELSE IF Len(sorted_in_edges(gr, moments)) >= 1 /\ obj.shapes
                 THEN LET mr == moments_reshapes(g1, moments, get_out_ports(g1, moments), <<>>)
                          g2 == mr[1]
                      IN  IF moments \in SeqSet(g2.outs) /\ mr[2] # <<>>
                          THEN LET index == Index(g2.outs, moments)
                               IN  moments_outs(
                                       [r1 EXCEPT !.g = [g2 EXCEPT !.outs = RemoveAt(@, index)]],
                                       index, mr[2])
                          ELSE [r1 EXCEPT !.g = g2]
                 ELSE Abandon(r1, gr)

RECURSIVE rename_moments_loop(_, _)
rename_moments_loop(r, ms) ==
    IF ms = <<>> \/ r.exc THEN r
    ELSE rename_moments_loop(rename_moments_match(r, Head(ms)), Tail(ms))

rename_moments(gr) ==
    rename_moments_loop(Start(gr), single_node_matcher(gr, "Moments"))

-----------------------------------------------------------------------------
(* remove_const: Constant nodes become ArmConstant or are removed.         *)

RemoveFirst(s, a) == IF a \in SeqSet(s) THEN RemoveAt(s, Index(s, a)) ELSE s

\* one turn of "for node_name in graph.nodes"; a = [r, removing]
remove_const_node(a, n) ==
    LET gr == a.r.g
        obj == gr.node[n]
        outs == sorted_out_edges(gr, n)
        toArm == [a EXCEPT !.r = Hit(a.r, replace_obj(gr, n, [obj EXCEPT !.kind = "ArmConstant"]))]
        drop == [a EXCEPT !.removing = @ \cup {n}]
    IN  IF ObjNone(gr, n) \/ obj.kind \notin {"Constant", "Dummy"} THEN a
        ELSE IF Len(outs) >= 1 /\ obj.kind = "Constant"
        THEN LET child == outs[1].dst
                 ck == Kind(gr, child)
             IN  IF ObjNone(gr, child) THEN [a EXCEPT !.r = Warn(a.r)]
                 ELSE IF IsArm(ck)
                 THEN IF NumInPorts(ck) < 0 \/ outs[1].dp < NumInPorts(ck)
                      THEN toArm
                      ELSE drop
                 ELSE IF Len(outs) = 1 /\ ck = "Out"
                 THEN [drop EXCEPT !.r.g.outs = RemoveFirst(@, n)]
                 ELSE toArm
        ELSE drop

RECURSIVE remove_const_loop(_, _)
remove_const_loop(a, ns) ==
    IF ns = <<>> THEN a
    ELSE remove_const_loop(remove_const_node(a, Head(ns)), Tail(ns))

remove_const(gr) ==
    LET a == remove_const_loop([r |-> Start(gr), removing |-> {}], SetToSeq(Nodes(gr)))
    IN  [a.r EXCEPT !.g = remove_nodes_from(a.r.g, a.removing),
                    !.hit = @ + Cardinality(a.removing)]

-----------------------------------------------------------------------------
(* The sink passes of the layout-cleanup loop.                             *)

\* the concrete Arm kinds that are layout-unaware, sorted by name
UnawareTypes == <<"ArmActivation", "ArmCast", "ArmEltwise", "ArmLogical", "ArmPow">>

\* tuples of node names of one length, in lexicographic order
TupleLess(p, q) ==
    \E i \in 1..Len(p) : p[i] < q[i] /\ \A j \in 1..(i - 1) : p[j] = q[j]

RECURSIVE TuplesToSeq(_)
TuplesToSeq(S) ==
    IF S = {} THEN <<>>
    ELSE LET m == CHOOSE p \in S : \A q \in S \ {p} : TupleLess(p, q)
         IN  <<m>> \o TuplesToSeq(S \ {m})

\* an edge a -> b with the given ports exists
HasEdge(gr, a, b, sp, dp) ==
    \E e \in gr.edges : e.src = a /\ e.dst = b /\ e.sp = sp /\ e.dp = dp

\* an edge a -> b on any ports
HasEdgeAny(gr, a, b) == \E e \in gr.edges : e.src = a /\ e.dst = b

\* an edge a -> b into in-port dp
HasEdgeInto(gr, a, b, dp) == \E e \in gr.edges : e.src = a /\ e.dst = b /\ e.dp = dp

\* the nodes whose operator is of kind k
KindNodes(gr, k) == {n \in Nodes(gr) : Kind(gr, n) = k}

\* matched_patterns for trans -> unaware (port tp) <- const (port 1 - tp)
with_const_pattern(gr, uw, tp) ==
    TuplesToSeq({m \in KindNodes(gr, "ArmTranspose") \X KindNodes(gr, "ArmConstant")
                         \X KindNodes(gr, uw) :
                    /\ HasEdge(gr, m[1], m[3], 0, tp)
                    /\ HasEdge(gr, m[2], m[3], 0, 1 - tp)})

RECURSIVE with_const_matches(_, _)
with_const_matches(gr, uws) ==
    IF uws = <<>> THEN <<>>
    ELSE with_const_pattern(gr, Head(uws), 0) \o with_const_pattern(gr, Head(uws), 1)
           \o with_const_matches(gr, Tail(uws))

\* for _, dst, out_attr in es: remove_edge(from, dst); add_edge(to, dst, **out_attr)
\* (MoveOutEdges), then add_edge(from, to) with the default ports
InsertAfter(gr, n, new, k) ==
    replace_obj(add_edge(MoveOutEdges(gr, sorted_out_edges(gr, n), n, new), n, new, 0, 0),
                new, k)

\* if the node has no out-edge left, its in-edges are removed
DropIfUnused(gr, n) ==
    IF OutEdges(gr, n) = {} THEN remove_edges_from(gr, InEdges(gr, n)) ELSE gr

\* the rewrite of one match without the reachability test
sink_transpose_with_const_match_nopath(r, m) ==
    LET gr == r.g
        trans == m[1]
        const == m[2]
        unaware == m[3]
    IN  IF ObjNone(gr, trans) \/ ObjNone(gr, const) \/ ObjNone(gr, unaware) THEN Warn(r)
        ELSE LET const_out_edges == sorted_out_edges(gr, const)
                 unaware_in_edges == sorted_in_edges(gr, unaware)
                 trans_in_edges == sorted_in_edges(gr, trans)
             IN  IF ~(/\ Len(const_out_edges) = 1
                      /\ \/ gr.node[trans].rank = gr.node[const].rank
                         \/ Kind(gr, unaware) = "ArmPow" /\ gr.node[const].rank = 1
                      /\ NumInPorts(Kind(gr, unaware)) = 2
                      /\ Len(unaware_in_edges) = 2
                      /\ Len(get_out_ports(gr, unaware)) = 1)
                 THEN r
                 ELSE IF trans_in_edges = <<>> THEN Raise(r)      \* trans_in_edges[0]
                 ELSE LET src == trans_in_edges[1]
                          port == IF unaware_in_edges[1].src = trans THEN 0 ELSE 1
                          g1 == add_edge(remove_edge(gr, trans, unaware),
                                         src.src, unaware, src.sp, port)
                          post_trans == get_valid_node_name(g1)
                          g2 == InsertAfter(g1, unaware, post_trans,
                                    [Op("ArmTranspose") EXCEPT !.rank = gr.node[trans].rank,
                                                               !.perm = gr.node[trans].perm])
                          g3 == DropIfUnused(g2, trans)
                          g4 == ReplaceOut(g3, unaware, post_trans)
                      IN  Crn(Hit(r, g4), TRUE)

sink_transpose_with_const_match(r, m) ==
    LET gr == r.g
        trans == m[1]
        const == m[2]
        unaware == m[3]
    IN  IF ObjNone(gr, trans) \/ ObjNone(gr, const) \/ ObjNone(gr, unaware) THEN Warn(r)
        ELSE LET const_out_edges == sorted_out_edges(gr, const)
                 unaware_in_edges == sorted_in_edges(gr, unaware)
                 trans_in_edges == sorted_in_edges(gr, trans)
             IN  IF ~(/\ ~has_path(gr, trans, const)
                      /\ ~has_path(gr, const, trans)
                      /\ Len(const_out_edges) = 1
                      /\ \/ gr.node[trans].rank = gr.node[const].rank
                         \/ Kind(gr, unaware) = "ArmPow" /\ gr.node[const].rank = 1
                      /\ NumInPorts(Kind(gr, unaware)) = 2
                      /\ Len(unaware_in_edges) = 2
                      /\ Len(get_out_ports(gr, unaware)) = 1)
                 THEN r
                 ELSE IF trans_in_edges = <<>> THEN Raise(r)      \* trans_in_edges[0]
                 ELSE LET src == trans_in_edges[1]
                          port == IF unaware_in_edges[1].src = trans THEN 0 ELSE 1
                          g1 == add_edge(remove_edge(gr, trans, unaware),
                                         src.src, unaware, src.sp, port)
                          post_trans == get_valid_node_name(g1)
                          g2 == InsertAfter(g1, unaware, post_trans,
                                    [Op("ArmTranspose") EXCEPT !.rank = gr.node[trans].rank,
                                                               !.perm = gr.node[trans].perm])
                          g3 == DropIfUnused(g2, trans)
                          g4 == ReplaceOut(g3, unaware, post_trans)
                      IN  Crn(Hit(r, g4), TRUE)

RECURSIVE sink_transpose_with_const_loop(_, _)
sink_transpose_with_const_loop(r, ms) ==
    IF ms = <<>> \/ r.exc THEN r
    ELSE sink_transpose_with_const_loop(
             sink_transpose_with_const_match(r, Head(ms)), Tail(ms))

sink_transpose_with_const(gr) ==
    sink_transpose_with_const_loop(Start(gr), with_const_matches(gr, UnawareTypes))

\* for p in out_ports: a Transpose is put behind output port p of the split;
\* a = [g, names], es = the out-edges of the split before the rewrite
RECURSIVE split_ports(_, _, _, _)
split_ports(a, split, es, ports) ==
    IF ports = <<>> THEN a
    ELSE LET p == Head(ports)
             post_trans == get_valid_node_name(a.g)
             mine == SortOut({e \in es : e.sp = p})
             g1 == MovePortEdges(a.g, mine, split, post_trans)
             g2 == replace_obj(add_edge(g1, split, post_trans, p, 0),
                               post_trans, Op("ArmTranspose"))
         IN  split_ports([g |-> g2, names |-> Append(a.names, post_trans)],
                         split, es, Tail(ports))

\* output_names.remove(a); then the names are inserted at a's index
SpliceOut(s, a, names) ==
    LET i == Index(s, a)
    IN  SubSeq(s, 1, i - 1) \o names \o SubSeq(s, i + 1, Len(s))

sink_transpose_through_split_match(r, m) ==
    LET gr == r.g
        trans == m[1]
        split == m[2]
    IN  IF ObjNone(gr, trans) \/ ObjNone(gr, split) THEN Warn(r)
        ELSE LET trans_in_edges == sorted_in_edges(gr, trans)
                 split_out_edges == OutEdges(gr, split)
             IN  IF trans_in_edges = <<>> THEN Raise(r)           \* trans_in_edges[0]
                 ELSE LET src == trans_in_edges[1]
                          g1 == add_edge(remove_edge(gr, trans, split),
                                         src.src, split, src.sp, src.dp)
                          a == split_ports([g |-> g1, names |-> <<>>], split,
                                           split_out_edges, get_out_ports(g1, split))
                          need_clear == OutEdges(a.g, trans) = {}
                          g2 == DropIfUnused(a.g, trans)
                          g3 == IF split \in SeqSet(g2.outs) /\ a.names # <<>>
                                THEN [g2 EXCEPT !.outs = SpliceOut(@, split, a.names)]
                                ELSE g2
                      IN  IF need_clear THEN Crn(Hit(r, g3), TRUE) ELSE Hit(r, g3)

RECURSIVE sink_transpose_through_split_loop(_, _)
sink_transpose_through_split_loop(r, ms) ==
    IF ms = <<>> \/ r.exc THEN r
    ELSE sink_transpose_through_split_loop(
             sink_transpose_through_split_match(r, Head(ms)), Tail(ms))

sink_transpose_through_split(gr) ==
    sink_transpose_through_split_loop(Start(gr),
        two_nodes_matcher(gr, "ArmTranspose", "ArmSplit"))

-----------------------------------------------------------------------------
(* sink_double_transpose: two equal transposes in front of a two-input     *)
(* layout-unaware operator become one transpose behind it.                 *)

\* the matches <<trans1, trans2, unaware>>
double_transpose_pattern(gr) ==
    LET T == KindNodes(gr, "ArmTranspose")
        U == {n \in Nodes(gr) : Kind(gr, n) \in SeqSet(UnawareTypes)}
    IN  TuplesToSeq({m \in T \X T \X U :
                       /\ m[1] # m[2]
                       /\ HasEdge(gr, m[1], m[3], 0, 0)
                       /\ HasEdge(gr, m[2], m[3], 0, 1)})

sink_double_transpose_match(r, m) ==
    LET gr == r.g
        trans1 == m[1]
        trans2 == m[2]
        unaware == m[3]
    IN  IF ObjNone(gr, trans1) \/ ObjNone(gr, trans2) \/ ObjNone(gr, unaware) THEN Warn(r)
        ELSE IF ~(/\ gr.node[trans1].perm = gr.node[trans2].perm
                  /\ gr.node[trans1].rank = gr.node[trans2].rank
                  /\ NumInPorts(Kind(gr, unaware)) = 2
                  /\ Len(get_out_ports(gr, unaware)) = 1)
        THEN r
        ELSE LET trans1_in_edges == sorted_in_edges(gr, trans1)
                 trans2_in_edges == sorted_in_edges(gr, trans2)
             IN  IF trans1_in_edges = <<>> \/ trans2_in_edges = <<>> THEN Warn(r)
                 ELSE LET in1 == trans1_in_edges[1]
                          in2 == trans2_in_edges[1]
                          g1 == remove_edge(remove_edge(gr, trans1, unaware), trans2, unaware)
                          g2 == add_edge(add_edge(g1, in1.src, unaware, in1.sp, in1.dp),
                                         in2.src, unaware, in2.sp, 1)
                          g3 == DropIfUnused(DropIfUnused(g2, trans1), trans2)
                          post_trans == get_valid_node_name(g3)
                          g4 == InsertAfter(g3, unaware, post_trans,
                                    [Op("ArmTranspose") EXCEPT !.rank = gr.node[trans1].rank,
                                                               !.perm = gr.node[trans1].perm])
                      IN  Hit(r, ReplaceOut(g4, unaware, post_trans))

RECURSIVE sink_double_transpose_loop(_, _)
sink_double_transpose_loop(r, ms) ==
    IF ms = <<>> \/ r.exc THEN r
    ELSE sink_double_transpose_loop(sink_double_transpose_match(r, Head(ms)), Tail(ms))

\* matched = True before the loop: the cleanup at the end always runs
sink_double_transpose(gr) ==
    LET r == sink_double_transpose_loop(Start(gr), double_transpose_pattern(gr))
    IN  IF r.exc THEN r ELSE Crn(r, FALSE)

-----------------------------------------------------------------------------
(* merge_greater_less_equal_or: Or(Greater|Less(a, b), Equal(a, b))        *)
(* becomes ArmLogical(a, b).                                               *)

\* the matches <<inp1, inp2, greater_less, equal, or>> for one kind op
gleo_pattern(gr, op) ==
    LET N == Nodes(gr)
        S == {m \in N \X N \X KindNodes(gr, op) \X KindNodes(gr, "Equal")
                       \X KindNodes(gr, "Or") :
                /\ Cardinality({m[1], m[2], m[3], m[4], m[5]}) = 5
                /\ \E e \in gr.edges : e.src = m[1] /\ e.dst = m[3] /\ e.dp = 0
                /\ \E e \in gr.edges : e.src = m[2] /\ e.dst = m[3] /\ e.dp = 1
                /\ \E e \in gr.edges : e.src = m[1] /\ e.dst = m[4] /\ e.dp = 0
                /\ \E e \in gr.edges : e.src = m[2] /\ e.dst = m[4] /\ e.dp = 1
                /\ \E e \in gr.edges : e.src = m[3] /\ e.dst = m[5]
                /\ \E e \in gr.edges : e.src = m[4] /\ e.dst = m[5]}
    IN  TuplesToSeq(S)

merge_greater_less_equal_or_match(r, m) ==
    LET gr == r.g
        inp1 == m[1]
        inp2 == m[2]
        greater_less == m[3]
        equal == m[4]
        or_name == m[5]
        greater_less_in_edges == sorted_in_edges(gr, greater_less)
    IN  IF /\ Len(greater_less_in_edges) = 2
           /\ Cardinality(OutEdges(gr, greater_less)) = 1
           /\ Cardinality(InEdges(gr, equal)) = 2
           /\ Cardinality(OutEdges(gr, equal)) = 1
           /\ ~ObjNone(gr, greater_less)
           /\ ~ObjNone(gr, or_name)
        THEN LET in1 == greater_less_in_edges[1]
                 in2 == greater_less_in_edges[2]
                 g1 == remove_edges_from(gr,
                           InEdges(gr, greater_less) \cup InEdges(gr, equal)
                             \cup OutEdges(gr, greater_less) \cup OutEdges(gr, equal))
                 g2 == add_edge(add_edge(g1, inp1, or_name, in1.sp, in1.dp),
                                inp2, or_name, in2.sp, in2.dp)
                 g3 == replace_obj(g2, or_name,
                           [gr.node[or_name] EXCEPT !.kind = "ArmLogical",
                                !.method = IF Kind(gr, greater_less) = "Greater"
                                           THEN "GREATER_EQUAL" ELSE "LESS_EQUAL"])
             IN  Hit(r, g3)
        ELSE r

RECURSIVE merge_greater_less_equal_or_loop(_, _)
merge_greater_less_equal_or_loop(r, ms) ==
    IF ms = <<>> \/ r.exc THEN r
    ELSE merge_greater_less_equal_or_loop(
             merge_greater_less_equal_or_match(r, Head(ms)), Tail(ms))

merge_greater_less_equal_or(gr) ==
    merge_greater_less_equal_or_loop(Start(gr),
        gleo_pattern(gr, "Greater") \o gleo_pattern(gr, "Less"))

-----------------------------------------------------------------------------
(* merge_hw_maxunpool: the index offset Add in front of an ArmMaxUnpool is *)
(* folded into flatten_dim = HW.                                           *)

\* the matches <<const, add, cast, transpose, maxunpool>>
hw_maxunpool_pattern(gr) ==
    LET S == {m \in KindNodes(gr, "Constant") \X KindNodes(gr, "ArmEltwise")
                       \X KindNodes(gr, "ArmCast") \X KindNodes(gr, "ArmTranspose")
                       \X KindNodes(gr, "ArmMaxUnpool") :
                /\ \E e \in gr.edges : e.src = m[1] /\ e.dst = m[2]
                /\ \E e \in gr.edges : e.src = m[2] /\ e.dst = m[3]
                /\ \E e \in gr.edges : e.src = m[3] /\ e.dst = m[4]
                /\ HasEdge(gr, m[4], m[5], 0, 1)}
    IN  TuplesToSeq(S)

\* for src, _, in_attr in add_in_edges: remove_edge(src, add); the edges that
\* do not come from the constant are re-attached to the cast
RECURSIVE maxunpool_rewire(_, _, _, _, _)
maxunpool_rewire(gr, es, add, const, cast) ==
    IF es = <<>> THEN gr
    ELSE LET e == Head(es)
             g1 == remove_edge(gr, e.src, add)
             g2 == IF e.src # const THEN add_edge(g1, e.src, cast, e.sp, e.dp) ELSE g1
         IN  maxunpool_rewire(g2, Tail(es), add, const, cast)

merge_hw_maxunpool_match(r, m) ==
    LET gr == r.g
        const == m[1]
        add == m[2]
        cast == m[3]
        maxunpool == m[5]
    IN  IF /\ \A i \in 1..5 : ~ObjNone(gr, m[i])
           /\ gr.node[add].method = "ADD"
           /\ gr.node[maxunpool].flat = "NCHW"
        THEN IF Cardinality(OutEdges(gr, const)) # 1 \/ Cardinality(OutEdges(gr, add)) # 1
             THEN r
             ELSE IF ~gr.node[maxunpool].shapes THEN r
             ELSE IF gr.node[const].method # "OFFSETS" THEN r   \* FLOAT_EQUAL(const.value, add_oprand)
             ELSE LET g1 == remove_edges_from(gr, OutEdges(gr, add))
                      g2 == maxunpool_rewire(g1, sorted_in_edges(g1, add), add, const, cast)
                      g3 == [g2 EXCEPT !.node[maxunpool].flat = "HW"]
                  IN  Hit(r, g3)
        ELSE Warn(r)

RECURSIVE merge_hw_maxunpool_loop(_, _)
merge_hw_maxunpool_loop(r, ms) ==
    IF ms = <<>> \/ r.exc THEN r
    ELSE merge_hw_maxunpool_loop(merge_hw_maxunpool_match(r, Head(ms)), Tail(ms))

merge_hw_maxunpool(gr) ==
    LET r == merge_hw_maxunpool_loop(Start(gr), hw_maxunpool_pattern(gr))
    IN  IF r.hit > 0 /\ ~r.exc THEN Crn(r, FALSE) ELSE r

-----------------------------------------------------------------------------
(* fuse_weights_const (front pass): constant weights and biases inputs are *)
(* folded into the operator.                                               *)

\* _get_src_data(src, edge_attr) is an ndarray
SrcIsData(gr, src) == Kind(gr, src) \in {"Constant", "TfConst"}

\* for i, edge_info in enumerate(in_edges); a = run record, i counts from 0
RECURSIVE fuse_weights_edges(_, _, _, _, _)
fuse_weights_edges(r, n, es, i, ports) ==
    IF es = <<>> \/ r.exc THEN r
    ELSE LET e == Head(es)
         IN  IF ObjNone(r.g, e.src)
             THEN Raise(r)                        \* src_obj.type on None
             ELSE fuse_weights_edges(
                      IF i \in ports /\ SrcIsData(r.g, e.src)
                      THEN Hit(r, remove_edge_key(r.g, e.src, n, e.key))
                      ELSE r,
                      n, Tail(es), i + 1, ports)

fuse_weights_const_node(r, n) ==
    LET gr == r.g
        obj == gr.node[n]
        in_edges == sorted_in_edges(gr, n)
    IN  IF ObjNone(gr, n) THEN Warn(r)
        ELSE IF obj.hasw /\ obj.hasb
        THEN IF obj.kind \in {"GRU", "LSTM", "QLinearConv", "DeformConv"} THEN r
             ELSE fuse_weights_edges(r, n, in_edges, 0,
                      {1, IF obj.kind \in {"LiteTRANSPOSE_CONV", "LiteCONV_3D_TRANSPOSE"}
                          THEN 3 ELSE 2})
        ELSE IF obj.hasw
        THEN fuse_weights_edges(r, n, in_edges, 0, {1})
        ELSE r

RECURSIVE fuse_weights_const_loop(_, _)
fuse_weights_const_loop(r, ns) ==
    IF ns = <<>> \/ r.exc THEN r
    ELSE fuse_weights_const_loop(fuse_weights_const_node(r, Head(ns)), Tail(ns))

fuse_weights_const(gr) ==
    LET r == fuse_weights_const_loop(Start(gr), SetToSeq(Nodes(gr)))
    IN  IF r.hit > 0 /\ ~r.exc THEN Crn(r, FALSE) ELSE r

-----------------------------------------------------------------------------
(* merge_qmatmul (front pass): DequantizeLinear x 2 -> MatMul ->           *)
(* QuantizeLinear becomes QLinearMatMul with eight inputs.                 *)

\* the matches <<a_dequant, b_dequant, matmul, y_quant>>
qmatmul_pattern(gr) ==
    LET D == KindNodes(gr, "DequantizeLinear")
    IN  TuplesToSeq({m \in D \X D \X KindNodes(gr, "MatMul") \X KindNodes(gr, "QuantizeLinear") :
                       /\ m[1] # m[2]
                       /\ \E e \in gr.edges : e.src = m[1] /\ e.dst = m[3]
                       /\ \E e \in gr.edges : e.src = m[2] /\ e.dst = m[3] /\ e.dp = 1
                       /\ \E e \in gr.edges : e.src = m[3] /\ e.dst = m[4]})

\* the in-edges copied with their dst_in_port as it was
RECURSIVE copy_in_edges_unshifted(_, _, _, _)
copy_in_edges_unshifted(gr, es, dst, shift) ==
    IF es = <<>> THEN gr
    ELSE copy_in_edges_unshifted(add_edge(gr, Head(es).src, dst, Head(es).sp, Head(es).dp),
                                 Tail(es), dst, shift)

\* for src, _, in_attr in es: add_edge(src, dst, dst_in_port + shift)
RECURSIVE copy_in_edges(_, _, _, _)
copy_in_edges(gr, es, dst, shift) ==
    IF es = <<>> THEN gr
    ELSE copy_in_edges(add_edge(gr, Head(es).src, dst, Head(es).sp, Head(es).dp + shift),
                       Tail(es), dst, shift)

\* any(e[2]['tensor'].value is None for e in es[1:])
NonConstTail(gr, es) == \E i \in 2..Len(es) : ~SrcIsData(gr, es[i].src)

\* the zero point becomes a Constant input when the operator had two inputs
zero_point(gr, es, dst, in_port) ==
    IF Len(es) = 2 THEN insert_constant(gr, dst, in_port) ELSE gr

merge_qmatmul_match(r, m) ==
    LET gr == r.g
        matmul == m[3]
        y_quant == m[4]
        a_in == sorted_in_edges(gr, m[1])
        b_in == sorted_in_edges(gr, m[2])
        y_in == sorted_in_edges(gr, y_quant)
    IN  IF \E i \in 1..4 : ObjNone(gr, m[i]) THEN Warn(r)
        ELSE IF Len(a_in) \notin {2, 3} THEN Raise(r)        \* m['x_dequant']
        ELSE IF NonConstTail(gr, a_in) THEN r
        ELSE IF Len(b_in) \notin {2, 3} THEN Warn(r)
        ELSE IF NonConstTail(gr, b_in) THEN r
        ELSE IF Cardinality(OutEdges(gr, matmul)) # 1 THEN r
        ELSE IF Len(y_in) \notin {2, 3} THEN Warn(r)
        ELSE IF NonConstTail(gr, y_in) THEN r
        ELSE LET g1 == remove_edges_from(gr, InEdges(gr, matmul))
                 g2 == zero_point(copy_in_edges(g1, a_in, matmul, 0), a_in, matmul, 2)
                 g3 == zero_point(copy_in_edges(g2, b_in, matmul, 3), b_in, matmul, 5)
                 g4 == zero_point(copy_in_edges(g3, Tail(y_in), matmul, 5), y_in, matmul, 7)
                 g5 == remove_edge(g4, matmul, y_quant)
                 g6 == MoveOutEdges(g5, sorted_out_edges(g5, y_quant), y_quant, matmul)
                 g7 == ReplaceOut(g6, y_quant, matmul)
                 g8 == replace_obj(g7, matmul, [gr.node[matmul] EXCEPT !.kind = "QLinearMatMul"])
             IN  Hit(r, g8)

RECURSIVE merge_qmatmul_loop(_, _)
merge_qmatmul_loop(r, ms) ==
    IF ms = <<>> \/ r.exc THEN r
    ELSE merge_qmatmul_loop(merge_qmatmul_match(r, Head(ms)), Tail(ms))

merge_qmatmul(gr) ==
    IF ~gr.quantize THEN Start(gr)
    ELSE LET r == merge_qmatmul_loop(Start(gr), qmatmul_pattern(gr))
         IN  IF r.hit > 0 /\ ~r.exc THEN Crn(r, FALSE) ELSE r

-----------------------------------------------------------------------------
(* merge_square: Pow(x, Constant 2) becomes ArmSquare(x).                  *)

\* matched_patterns(graph, nodes=[(a, {'op': ka}), (b, {'op': kb})],
\*                  edges=[(a, b, {'src_out_port': sp, 'dst_in_port': dp})])
matched_patterns(gr, ka, kb, sp, dp) ==
    TuplesToSeq({m \in KindNodes(gr, ka) \X KindNodes(gr, kb) :
                    HasEdge(gr, m[1], m[2], sp, dp)})

\* a pattern Constant -> Pow that constrains neither port
square_pattern_anyport(gr) == two_nodes_matcher(gr, "Constant", "Pow")

square_pattern(gr) == matched_patterns(gr, "Constant", "Pow", 0, 1)

merge_square_match(r, m) ==
    LET gr == r.g
        const == m[1]
        pow == m[2]
    IN  IF ObjNone(gr, const) \/ ObjNone(gr, pow) THEN Warn(r)
        ELSE IF gr.node[const].value = 2
        THEN Hit(r, replace_obj(remove_edge(gr, const, pow), pow,
                                [gr.node[pow] EXCEPT !.kind = "ArmSquare"]))
        ELSE r

RECURSIVE merge_square_loop(_, _)
merge_square_loop(r, ms) ==
    IF ms = <<>> \/ r.exc THEN r
    ELSE merge_square_loop(merge_square_match(r, Head(ms)), Tail(ms))

merge_square(gr) ==
    LET r == merge_square_loop(Start(gr), square_pattern(gr))
    IN  IF r.hit > 0 /\ ~r.exc THEN Crn(r, FALSE) ELSE r

-----------------------------------------------------------------------------
(* merge_b2s: Transpose -> DepthToSpace -> Transpose [-> Slice] becomes    *)
(* ArmBatchToSpace.  perm 1 stands for the permutation that swaps the      *)
(* first and the last axis, 0 for any other.                               *)

\* matched_patterns for transpose1 -> d2s -> transpose2 -> output, the output
\* of any type and the edges on any ports
b2s_pattern(gr) ==
    TuplesToSeq({m \in KindNodes(gr, "Transpose") \X KindNodes(gr, "DepthToSpace")
                         \X KindNodes(gr, "Transpose") \X Nodes(gr) :
                    /\ m[1] # m[3] /\ m[4] \notin {m[1], m[2], m[3]}
                    /\ \E e \in gr.edges : e.src = m[1] /\ e.dst = m[2]
                    /\ \E e \in gr.edges : e.src = m[2] /\ e.dst = m[3]
                    /\ \E e \in gr.edges : e.src = m[3] /\ e.dst = m[4]})

\* for src, _, in_attr in es: remove_edge(src, from); add_edge(src, to, **in_attr)
RECURSIVE MoveInEdges(_, _, _, _)
MoveInEdges(gr, es, from, to) ==
    IF es = <<>> THEN gr
    ELSE MoveInEdges(add_edge(remove_edge(gr, Head(es).src, from),
                              Head(es).src, to, Head(es).sp, Head(es).dp),
                     Tail(es), from, to)

\* obj.get_output_shapes() is non-empty with every shape known
has_output_shapes(gr, n) == sorted_out_edges(gr, n) # <<>> /\ gr.node[n].shapes

\* attr: an ArmBatchToSpace object answers .blocksize (the object classes are
\* not under src/)
merge_b2s_match(r, m, attr) ==
    LET gr == r.g
        transpose1 == m[1]
        d2s == m[2]
        transpose2 == m[3]
        out == m[4]
    IN  IF ObjNone(gr, transpose1) \/ ObjNone(gr, transpose2) THEN Raise(r)
        ELSE IF ~(gr.node[transpose2].perm = 1 /\ gr.node[transpose1].perm = 1) THEN r
        ELSE IF ~has_output_shapes(gr, transpose2) THEN r
        ELSE IF ObjNone(gr, out) \/ ObjNone(gr, d2s) THEN Raise(r)
        ELSE IF Kind(gr, d2s) # "DepthToSpace" /\ ~attr THEN Raise(r)
        ELSE LET true_last_node == IF Kind(gr, out) = "Slice" THEN out ELSE transpose2
                 g1 == remove_edges_from(gr, InEdges(gr, d2s) \cup OutEdges(gr, d2s))
                 g2 == MoveInEdges(g1, sorted_in_edges(g1, transpose1), transpose1, d2s)
                 g3 == MoveOutEdges(g2, sorted_out_edges(g2, true_last_node),
                                    true_last_node, d2s)
                 g4 == ReplaceOut(g3, true_last_node, d2s)
             IN  Hit(r, replace_obj(g4, d2s, [gr.node[d2s] EXCEPT !.kind = "ArmBatchToSpace"]))

RECURSIVE merge_b2s_loop(_, _, _)
merge_b2s_loop(r, ms, attr) ==
    IF ms = <<>> \/ r.exc THEN r
    ELSE merge_b2s_loop(merge_b2s_match(r, Head(ms), attr), Tail(ms), attr)

merge_b2s(gr, attr) ==
    LET r == merge_b2s_loop(Start(gr), b2s_pattern(gr), attr)
    IN  IF r.hit > 0 /\ ~r.exc THEN Crn(r, FALSE) ELSE r

-----------------------------------------------------------------------------
(* sink_single_transpose: ArmTranspose -> layout-unaware operator with one *)
(* input and one output becomes operator -> ArmTranspose.                  *)

\* matched_patterns for transpose -> unaware, the edge on any ports
single_transpose_pattern(gr) ==
    TuplesToSeq({m \in KindNodes(gr, "ArmTranspose")
                         \X {n \in Nodes(gr) : Kind(gr, n) \in SeqSet(UnawareTypes)} :
                    \E e \in gr.edges : e.src = m[1] /\ e.dst = m[2]})

\* for _, dst, out_attr in es: remove_edge(from, dst); the edge is added again
\* from the new source with src_out_port 0
RECURSIVE MoveOutEdgesPort0(_, _, _, _)
MoveOutEdgesPort0(gr, es, from, to) ==
    IF es = <<>> THEN gr
    ELSE MoveOutEdgesPort0(add_edge(remove_edge(gr, from, Head(es).dst),
                                    to, Head(es).dst, 0, Head(es).dp),
                           Tail(es), from, to)

\* an output name that moves to the end of output_names when it is replaced
sink_single_outputs_appended(gr, unaware, transpose) ==
    IF unaware \in SeqSet(gr.outs)
    THEN [gr EXCEPT !.outs = Append(RemoveAt(@, Index(@, unaware)), transpose)]
    ELSE gr

\* if unaware in output_names: output_names[index] = transpose
sink_single_outputs(gr, unaware, transpose) == ReplaceOut(gr, unaware, transpose)

sink_single_transpose_match(r, m) ==
    LET gr == r.g
        transpose == m[1]
        unaware == m[2]
    IN  IF ObjNone(gr, transpose) \/ ObjNone(gr, unaware) THEN Warn(r)
        ELSE LET trans_out_edges == sorted_out_edges(gr, transpose)
                 trans_in_edges == sorted_in_edges(gr, transpose)
             IN  IF ~(/\ Len(trans_out_edges) = 1
                      /\ NumInPorts(Kind(gr, unaware)) = 1
                      /\ Len(get_out_ports(gr, unaware)) = 1)
                 THEN r
                 ELSE IF sorted_in_edges(gr, unaware) = <<>> THEN Raise(r)
                                                      \* get_input_shapes()[0]
                 ELSE IF ~gr.node[unaware].shapes THEN Warn(r)
                 ELSE IF trans_in_edges = <<>> THEN Raise(r)      \* trans_in_edges[0]
                 ELSE LET src == trans_in_edges[1]
                          g1 == remove_edges_from(remove_edge(gr, src.src, transpose),
                                                  OutEdges(gr, transpose))
                          g2 == MoveOutEdgesPort0(g1, sorted_out_edges(g1, unaware),
                                                  unaware, transpose)
                          g3 == add_edge(g2, src.src, unaware, src.sp, trans_out_edges[1].dp)
                          g4 == add_edge(g3, unaware, transpose, 0, 0)
                      IN  Hit(r, sink_single_outputs(g4, unaware, transpose))

RECURSIVE sink_single_transpose_loop(_, _)
sink_single_transpose_loop(r, ms) ==
    IF ms = <<>> \/ r.exc THEN r
    ELSE sink_single_transpose_loop(sink_single_transpose_match(r, Head(ms)), Tail(ms))

sink_single_transpose(gr) ==
    sink_single_transpose_loop(Start(gr), single_transpose_pattern(gr))

-----------------------------------------------------------------------------
(* merge_qconv, merge_q_multiple, merge_q_unary (front passes): the        *)
(* DequantizeLinear / QuantizeLinear nodes around a float operator are     *)
(* folded into it.  The scales and zero points are left out, except for    *)
(* two flags in value: on b_dequant, 0 says that the bias scale is the     *)
(* product of the other two and the bias zero point is 0; on a             *)
(* QuantizeLinear, 32 says that the zero point is of dtype int32.         *)

\* the passes run although graph._attr['quantize'] is not set
quantize_ignored(gr) == TRUE

\* graph._attr.get('quantize', False); FALSE is an attribute that is False
\* or absent
quantize(gr) == gr.quantize

\* any(e[2]['tensor'].value is None for e in es) or any(not ...is_const ...)
NonConstAny(gr, es) == \E i \in 1..Len(es) : ~SrcIsData(gr, es[i].src)

\* insert_constant on the in-ports ports of dst, in order
RECURSIVE insert_constants(_, _, _)
insert_constants(gr, dst, ports) ==
    IF ports = <<>> THEN gr
    ELSE insert_constants(insert_constant(gr, dst, Head(ports)), dst, Tail(ports))

\* matches <<x_dequant, w_dequant, b_dequant, conv, y_quant>>
qconv_pattern(gr) ==
    LET D == KindNodes(gr, "DequantizeLinear")
    IN  TuplesToSeq({m \in D \X D \X D
                           \X (KindNodes(gr, "Conv") \cup KindNodes(gr, "ConvTranspose"))
                           \X KindNodes(gr, "QuantizeLinear") :
                       /\ Cardinality({m[1], m[2], m[3]}) = 3
                       /\ HasEdgeAny(gr, m[1], m[4])
                       /\ HasEdgeInto(gr, m[2], m[4], 1)
                       /\ HasEdgeInto(gr, m[3], m[4], 2)
                       /\ HasEdgeAny(gr, m[4], m[5])})

\* matches <<x_dequant, w_dequant, b_dequant, conv, y_quant, relu>>
qconv_relu_pattern(gr) ==
    LET D == KindNodes(gr, "DequantizeLinear")
    IN  TuplesToSeq({m \in D \X D \X D \X KindNodes(gr, "Conv")
                           \X KindNodes(gr, "QuantizeLinear") \X KindNodes(gr, "Relu") :
                       /\ Cardinality({m[1], m[2], m[3]}) = 3
                       /\ HasEdgeAny(gr, m[1], m[4])
                       /\ HasEdgeInto(gr, m[2], m[4], 1)
                       /\ HasEdgeInto(gr, m[3], m[4], 2)
                       /\ HasEdgeAny(gr, m[4], m[6])
                       /\ HasEdgeAny(gr, m[6], m[5])})

merge_qconv_match(r, m) ==
    LET gr == r.g
        conv == m[4]
        y_quant == m[5]
        has_relu == Len(m) = 6
        x_in == sorted_in_edges(gr, m[1])
        w_in == sorted_in_edges(gr, m[2])
        b_in == sorted_in_edges(gr, m[3])
        y_in == sorted_in_edges(gr, y_quant)
        conv_out == sorted_out_edges(gr, conv)
    IN  IF \E n \in SeqSet(m) : ObjNone(gr, n) THEN Warn(r)
        ELSE IF Len(x_in) \notin {2, 3} THEN Warn(r)
        ELSE IF NonConstTail(gr, x_in) THEN r
        ELSE IF Len(w_in) \notin {2, 3} THEN Warn(r)
        ELSE IF NonConstAny(gr, w_in) THEN r
        ELSE IF Len(b_in) \notin {2, 3} THEN Warn(r)
        ELSE IF NonConstAny(gr, b_in) THEN r
        ELSE IF Len(conv_out) # 1 THEN r
        ELSE IF has_relu /\ Cardinality(OutEdges(gr, m[6])) # 1 THEN r
        ELSE IF Len(y_in) \notin {2, 3} THEN Warn(r)
        ELSE IF NonConstTail(gr, y_in) THEN r
        ELSE IF gr.node[m[3]].value # 0 THEN r
        ELSE LET g1 == remove_edges_from(gr, InEdges(gr, conv) \cup OutEdges(gr, conv))
                 g2 == add_edge(g1, x_in[1].src, conv, x_in[1].sp, x_in[1].dp)
                 g3 == IF has_relu
                       THEN add_edge(remove_edges_from(g2, OutEdges(g2, m[6])), conv, m[6],
                                     conv_out[1].sp, conv_out[1].dp)
                       ELSE g2
                 last_node == IF has_relu THEN m[6] ELSE conv
                 g4 == MoveOutEdges(g3, sorted_out_edges(g3, y_quant), y_quant, last_node)
                 g5 == ReplaceOut(g4, y_quant, last_node)
                 g6 == IF gr.node[conv].kind = "Conv"
                       THEN insert_constants(g5, conv, <<1, 2, 3, 4, 5, 6, 7, 8>>)
                       ELSE g5
             IN  Hit(r, replace_obj(g6, conv,
                                    [gr.node[conv] EXCEPT
                                        !.kind = IF @ = "Conv" THEN "QLinearConv"
                                                 ELSE "ConvTranspose",
                                        !.hasw = TRUE, !.hasb = TRUE]))

RECURSIVE merge_qconv_loop(_, _)
merge_qconv_loop(r, ms) ==
    IF ms = <<>> \/ r.exc THEN r
    ELSE merge_qconv_loop(merge_qconv_match(r, Head(ms)), Tail(ms))

merge_qconv(gr) ==
    IF ~quantize(gr) THEN Start(gr)
    ELSE LET r == merge_qconv_loop(Start(gr), qconv_pattern(gr) \o qconv_relu_pattern(gr))
         IN  IF r.hit > 0 /\ ~r.exc THEN Crn(r, FALSE) ELSE r

\* matches <<float_op, quant>>, float_op of a kind in op_list
q_multiple_pattern(gr, op_list) ==
    TuplesToSeq({m \in {n \in Nodes(gr) : Kind(gr, n) \in op_list}
                         \X KindNodes(gr, "QuantizeLinear") :
                    HasEdgeAny(gr, m[1], m[2])})

\* for i, dequant in enumerate(op_in_names): add_edge(src, float_op, dst_in_port=i)
RECURSIVE q_multiple_inputs(_, _, _, _)
q_multiple_inputs(gr, float_op, names, i) ==
    IF names = <<>> THEN gr
    ELSE LET e == sorted_in_edges(gr, Head(names))[1]
         IN  q_multiple_inputs(add_edge(gr, e.src, float_op, e.sp, i), float_op,
                               Tail(names), i + 1)

merge_q_multiple_match(r, m) ==
    LET gr == r.g
        float_op == m[1]
        quant == m[2]
        in_edges == sorted_in_edges(gr, float_op)
        op_in_names == [i \in 1..Len(in_edges) |-> in_edges[i].src]
        bad_len == {i \in 1..Len(op_in_names) :
                       Len(sorted_in_edges(gr, op_in_names[i])) \notin {2, 3}}
        quant_in == sorted_in_edges(gr, quant)
    IN  IF Len(in_edges) < 1 THEN Warn(r)
        ELSE IF Cardinality(OutEdges(gr, float_op)) # 1 THEN r
        ELSE IF \E n \in SeqSet(op_in_names) \cup {float_op, quant} : ObjNone(gr, n)
        THEN Warn(r)
        ELSE IF \E n \in SeqSet(op_in_names) : Kind(gr, n) # "DequantizeLinear" THEN r
        ELSE IF bad_len # {} THEN [r EXCEPT !.diag = @ + Cardinality(bad_len)]
        ELSE IF \E n \in SeqSet(op_in_names) : NonConstTail(gr, sorted_in_edges(gr, n)) THEN r
        ELSE IF Len(quant_in) \notin {2, 3} THEN Warn(r)
        ELSE IF NonConstTail(gr, quant_in) THEN r
        ELSE LET g1 == remove_edge(remove_edges_from(gr, InEdges(gr, float_op)),
                                   float_op, quant)
                 g2 == q_multiple_inputs(g1, float_op, op_in_names, 0)
                 g3 == MoveOutEdges(g2, sorted_out_edges(g2, quant), quant, float_op)
                 g4 == ReplaceOut(g3, quant, float_op)
             IN  Hit(r, replace_obj(g4, float_op,
                                    [gr.node[float_op] EXCEPT !.quantize = TRUE]))

RECURSIVE merge_q_multiple_loop(_, _)
merge_q_multiple_loop(r, ms) ==
    IF ms = <<>> \/ r.exc THEN r
    ELSE merge_q_multiple_loop(merge_q_multiple_match(r, Head(ms)), Tail(ms))

merge_q_multiple(gr, op_list) ==
    IF ~quantize(gr) THEN Start(gr)
    ELSE IF op_list = {} THEN Start(gr)
    ELSE LET r == merge_q_multiple_loop(Start(gr), q_multiple_pattern(gr, op_list))
         IN  IF r.hit > 0 /\ ~r.exc THEN Crn(r, FALSE) ELSE r

\* matches <<dequant, float_op, quant>>, dequant on in-port 0 of float_op
q_unary_pattern(gr, op_list) ==
    TuplesToSeq({m \in KindNodes(gr, "DequantizeLinear")
                         \X {n \in Nodes(gr) : Kind(gr, n) \in op_list}
                         \X KindNodes(gr, "QuantizeLinear") :
                    /\ HasEdgeInto(gr, m[1], m[2], 0)
                    /\ HasEdgeAny(gr, m[2], m[3])})

Int32Activations == {"Sigmoid", "LeakyRelu", "HardSwish", "HardSigmoid", "Relu"}

merge_q_unary_match(r, m) ==
    LET gr == r.g
        dequant == m[1]
        float_op == m[2]
        quant == m[3]
        dequant_in == sorted_in_edges(gr, dequant)
        op_in == sorted_in_edges(gr, float_op)
        quant_in == sorted_in_edges(gr, quant)
        clip == Kind(gr, float_op) = "Clip"
    IN  IF \E n \in SeqSet(m) : ObjNone(gr, n) THEN Warn(r)
        ELSE IF Len(dequant_in) \notin {2, 3} THEN Warn(r)
        ELSE IF NonConstTail(gr, dequant_in) THEN r
        ELSE IF Len(op_in) < 1 THEN Warn(r)
        ELSE IF Cardinality(OutEdges(gr, float_op)) # 1 THEN r
        ELSE IF Len(quant_in) \notin {2, 3} THEN Warn(r)
        ELSE IF NonConstTail(gr, quant_in) THEN r
        ELSE IF clip /\ (Len(op_in) # 3 \/ NonConstTail(gr, op_in)) THEN Warn(r)
        ELSE LET r1 == IF ~clip /\ Kind(gr, float_op) \in Int32Activations
                          /\ gr.node[quant].value = 32
                       THEN Warn(r) ELSE r
                 g1 == IF clip
                       THEN insert_constants(
                                remove_edges_from(gr, {op_in[i] : i \in 2..Len(op_in)}),
                                float_op, <<1, 2>>)
                       ELSE gr
                 g2 == remove_edge(remove_edges_from(g1, {op_in[1]}), float_op, quant)
                 g3 == add_edge(g2, dequant_in[1].src, float_op, dequant_in[1].sp,
                                dequant_in[1].dp)
                 g4 == MoveOutEdges(g3, sorted_out_edges(g3, quant), quant, float_op)
                 g5 == ReplaceOut(g4, quant, float_op)
             IN  Hit(r1, replace_obj(g5, float_op,
                                     [gr.node[float_op] EXCEPT !.quantize = TRUE]))

RECURSIVE merge_q_unary_loop(_, _)
merge_q_unary_loop(r, ms) ==
    IF ms = <<>> \/ r.exc THEN r
    ELSE merge_q_unary_loop(merge_q_unary_match(r, Head(ms)), Tail(ms))

merge_q_unary(gr, op_list) ==
    IF ~quantize(gr) THEN Start(gr)
    ELSE IF op_list = {} THEN Start(gr)
    ELSE LET r == merge_q_unary_loop(Start(gr), q_unary_pattern(gr, op_list))
         IN  IF r.hit > 0 /\ ~r.exc THEN Crn(r, FALSE) ELSE r

-----------------------------------------------------------------------------
(* merge_sequence_construct_and_at (front pass): SequenceAt of a           *)
(* SequenceConstruct at a constant position becomes the input at that      *)
(* position.  The position is the value of the Constant on in-port 1.      *)

\* a position taken as it is
seq_position_raw(position, seq_num) == position

\* if position < 0: position = position + seq_num
seq_position(position, seq_num) ==
    IF position < 0 THEN position + seq_num ELSE position

\* for _, dst, out_attr in at_out_edges: add_edge(src, dst, src_out_port of
\* the input, dst_in_port of the consumer)
RECURSIVE seq_at_consumers(_, _, _)
seq_at_consumers(gr, es, in_edge) ==
    IF es = <<>> THEN gr
    ELSE seq_at_consumers(add_edge(gr, in_edge.src, Head(es).dst, in_edge.sp, Head(es).dp),
                          Tail(es), in_edge)

merge_sequence_construct_and_at_match(r, m) ==
    LET gr == r.g
        seq_construct == m[1]
        seq_at == m[2]
        construct_in_edges == sorted_in_edges(gr, seq_construct)
        seq_num == Len(construct_in_edges)
        at_in_edges == sorted_in_edges(gr, seq_at)
    IN  IF ObjNone(gr, seq_construct) \/ ObjNone(gr, seq_at) \/ seq_num < 1 THEN Warn(r)
        ELSE IF Len(at_in_edges) # 2 \/ ~SrcIsData(gr, at_in_edges[2].src) THEN Warn(r)
        ELSE LET position == seq_position(gr.node[at_in_edges[2].src].value, seq_num)
             IN  IF position < 0 \/ position >= seq_num THEN Warn(r)
                 ELSE LET at_out_edges == sorted_out_edges(gr, seq_at)
                          in_edge == construct_in_edges[position + 1]
                          g1 == remove_edges_from(gr, OutEdges(gr, seq_at))
                          g2 == seq_at_consumers(g1, at_out_edges, in_edge)
                      IN  Hit(r, ReplaceOut(g2, seq_at, in_edge.src))

RECURSIVE merge_sequence_construct_and_at_loop(_, _)
merge_sequence_construct_and_at_loop(r, ms) ==
    IF ms = <<>> \/ r.exc THEN r
    ELSE merge_sequence_construct_and_at_loop(
             merge_sequence_construct_and_at_match(r, Head(ms)), Tail(ms))

merge_sequence_construct_and_at(gr) ==
    LET r == merge_sequence_construct_and_at_loop(
                 Start(gr), two_nodes_matcher(gr, "SequenceConstruct", "SequenceAt"))
    IN  IF r.hit > 0 /\ ~r.exc THEN Crn(r, FALSE) ELSE r

-----------------------------------------------------------------------------
(* MaxPool with indices: rename_pool and the merges of the arithmetic that *)
(* converts the flattened indices.  The arrays the merges compare the      *)
(* constants with are tags in Constant.value; the shapes are the flag      *)
(* shapes and the rank.                                                    *)

\* sub_oprand2, div_oprand2 and add_oprand2 of merge_nhwc_maxpoolargmax
NhwcSub == 11

NhwcDiv == 12

NhwcAdd == 13

\* sub_oprand of merge_hwc_maxpoolargmax
HwcSub == 14

\* sub_oprand of merge_hw_maxpoolargmax
HwSub == 15

PoolKinds == <<"AveragePool", "LpPool", "MaxPool">>

rename_pool_match(r, pool, op_type) ==
    LET gr == r.g
        obj == gr.node[pool]
        method == IF op_type = "LpPool" THEN (IF obj.value = 1 THEN "L1" ELSE "L2")
                  ELSE IF op_type = "AveragePool" THEN "AVG" ELSE "MAX"
    IN  IF ObjNone(gr, pool) THEN Raise(r)
        ELSE IF Len(get_out_ports(gr, pool)) = 1
        THEN Hit(r, replace_obj(gr, pool,
                                [obj EXCEPT !.kind = "ArmPooling", !.method = method]))
        ELSE IF ~obj.shapes \/ obj.rank # 4 THEN Warn(r)
        ELSE Hit(r, replace_obj(gr, pool,
                                [obj EXCEPT !.kind = "ArmMaxPoolingWithArgMax",
                                            !.flat = "NHWC"]))

RECURSIVE rename_pool_loop(_, _, _)
rename_pool_loop(r, ms, op_type) ==
    IF ms = <<>> \/ r.exc THEN r
    ELSE rename_pool_loop(rename_pool_match(r, Head(ms), op_type), Tail(ms), op_type)

RECURSIVE rename_pool_kinds(_, _)
rename_pool_kinds(r, ks) ==
    IF ks = <<>> \/ r.exc THEN r
    ELSE rename_pool_kinds(rename_pool_loop(r, single_node_matcher(r.g, Head(ks)), Head(ks)),
                           Tail(ks))

rename_pool(gr) == rename_pool_kinds(Start(gr), PoolKinds)

\* the out-edges es of node from become out-edges of node to on out-port sp
RECURSIVE MoveOutEdgesPort(_, _, _, _, _)
MoveOutEdgesPort(gr, es, from, to, sp) ==
    IF es = <<>> THEN gr
    ELSE MoveOutEdgesPort(add_edge(remove_edge(gr, from, Head(es).dst),
                                   to, Head(es).dst, sp, Head(es).dp),
                          Tail(es), from, to, sp)

\* output_names in which old is replaced by new without a second entry for new
replace_output_dup(gr, old, new) ==
    IF old \in SeqSet(gr.outs) THEN [gr EXCEPT !.outs[Index(gr.outs, old)] = new] ELSE gr

\* if old in output_names: new takes its place, unless new is there already,
\* then old is removed
replace_output(gr, old, new) ==
    IF old \in SeqSet(gr.outs)
    THEN IF new \notin SeqSet(gr.outs)
         THEN [gr EXCEPT !.outs[Index(gr.outs, old)] = new]
         ELSE [gr EXCEPT !.outs = RemoveFirst(gr.outs, old)]
    ELSE gr

\* the shapes merge_nhwc_maxpoolargmax and merge_hw_maxpoolargmax ask for
argmaxpool_shapes(obj) == obj.shapes /\ obj.rank = 4

\* matched_patterns for argmaxpool -> cast1 -> sub -> div -> add -> cast2 with
\* const1, const2, const3 on in-port 1 of sub, div, add;
\* m = <<argmaxpool, cast1, sub, div, add, cast2, const1, const2, const3>>
nhwc_pattern(gr) ==
    TuplesToSeq({m \in KindNodes(gr, "ArmMaxPoolingWithArgMax") \X KindNodes(gr, "ArmCast")
                         \X KindNodes(gr, "ArmEltwise") \X KindNodes(gr, "ArmDiv")
                         \X KindNodes(gr, "ArmEltwise") \X KindNodes(gr, "ArmCast")
                         \X KindNodes(gr, "Constant") \X KindNodes(gr, "Constant")
                         \X KindNodes(gr, "Constant") :
                    /\ Cardinality(SeqSet(m)) = 9
                    /\ HasEdge(gr, m[1], m[2], 1, 0)
                    /\ HasEdgeAny(gr, m[2], m[3])
                    /\ HasEdge(gr, m[7], m[3], 0, 1)
                    /\ HasEdgeAny(gr, m[3], m[4])
                    /\ HasEdge(gr, m[8], m[4], 0, 1)
                    /\ HasEdgeAny(gr, m[4], m[5])
                    /\ HasEdge(gr, m[9], m[5], 0, 1)
                    /\ HasEdgeAny(gr, m[5], m[6])})

merge_nhwc_maxpoolargmax_match(r, m) ==
    LET gr == r.g
        argmaxpool == m[1]
        cast1 == m[2]
        cast2 == m[6]
    IN  IF (\A n \in SeqSet(m) : ~ObjNone(gr, n))
           /\ gr.node[m[3]].method = "SUB" /\ gr.node[m[5]].method = "ADD"
        THEN IF (\A n \in {m[2], m[3], m[4], m[5], m[7], m[8], m[9]} :
                     Cardinality(OutEdges(gr, n)) = 1)
                /\ argmaxpool_shapes(gr.node[argmaxpool])
                /\ gr.node[m[7]].value = NhwcSub
                /\ gr.node[m[8]].value = NhwcDiv
                /\ gr.node[m[9]].value = NhwcAdd
             THEN LET g1 == remove_edges_from(gr, InEdges(gr, cast1))
                      g2 == MoveOutEdgesPort(g1, sorted_out_edges(g1, cast2), cast2,
                                             argmaxpool, 1)
                      g3 == replace_obj(g2, argmaxpool,
                                        [g2.node[argmaxpool] EXCEPT !.flat = "NCHW"])
                  IN  Hit(r, replace_output(g3, cast2, argmaxpool))
             ELSE r
        ELSE Warn(r)

RECURSIVE merge_nhwc_maxpoolargmax_loop(_, _)
merge_nhwc_maxpoolargmax_loop(r, ms) ==
    IF ms = <<>> \/ r.exc THEN r
    ELSE merge_nhwc_maxpoolargmax_loop(merge_nhwc_maxpoolargmax_match(r, Head(ms)), Tail(ms))

merge_nhwc_maxpoolargmax(gr) ==
    LET r == merge_nhwc_maxpoolargmax_loop(Start(gr), nhwc_pattern(gr))
    IN  IF r.hit > 0 /\ ~r.exc THEN Crn(r, FALSE) ELSE r

\* matched_patterns for argmaxpool -> sub -> cast with const on in-port 1 of
\* sub; m = <<argmaxpool, const, sub, cast>>
hwc_pattern(gr) ==
    TuplesToSeq({m \in KindNodes(gr, "ArmMaxPoolingWithArgMax") \X KindNodes(gr, "Constant")
                         \X KindNodes(gr, "ArmEltwise") \X KindNodes(gr, "ArmCast") :
                    /\ HasEdge(gr, m[1], m[3], 1, 0)
                    /\ HasEdgeInto(gr, m[2], m[3], 1)
                    /\ HasEdgeAny(gr, m[3], m[4])})

\* the test of flatten_dim in merge_hwc_maxpoolargmax, left out
hwc_flatten_dim_any(obj) == TRUE

\* obj_dict['argmaxpool'].flatten_dim != 'NHWC': continue
hwc_flatten_dim(obj) == obj.flat = "NHWC"

\* the output handling of merge_hwc_maxpoolargmax for the pair <<cast, argmaxpool>>
hwc_outputs(gr, cast, argmaxpool) == replace_output(gr, cast, argmaxpool)

merge_hwc_maxpoolargmax_match(r, m) ==
    LET gr == r.g
        argmaxpool == m[1]
        const == m[2]
        sub == m[3]
        cast == m[4]
    IN  IF \E n \in {argmaxpool, const, sub} : ObjNone(gr, n) THEN Warn(r)
        ELSE IF gr.node[sub].method # "SUB" \/ ~hwc_flatten_dim(gr.node[argmaxpool]) THEN r
        ELSE IF \E n \in {const, sub} : Cardinality(OutEdges(gr, n)) # 1 THEN r
        ELSE IF ~argmaxpool_shapes(gr.node[argmaxpool]) THEN Warn(r)
        ELSE IF gr.node[const].value # HwcSub THEN r
        ELSE LET g1 == remove_edges_from(gr, InEdges(gr, sub))
                 g2 == MoveOutEdgesPort(g1, sorted_out_edges(g1, cast), cast, argmaxpool, 1)
                 g3 == replace_obj(g2, argmaxpool,
                                   [g2.node[argmaxpool] EXCEPT !.flat = "HWC"])
             IN  Hit(r, hwc_outputs(g3, cast, argmaxpool))

RECURSIVE merge_hwc_maxpoolargmax_loop(_, _)
merge_hwc_maxpoolargmax_loop(r, ms) ==
    IF ms = <<>> \/ r.exc THEN r
    ELSE merge_hwc_maxpoolargmax_loop(merge_hwc_maxpoolargmax_match(r, Head(ms)), Tail(ms))

merge_hwc_maxpoolargmax(gr) ==
    LET r == merge_hwc_maxpoolargmax_loop(Start(gr), hwc_pattern(gr))
    IN  IF r.hit > 0 /\ ~r.exc THEN Crn(r, FALSE) ELSE r

\* matched_patterns for argmaxpool -> transpose -> cast -> sub with
\* const -> tile -> sub (in-port 1);
\* m = <<argmaxpool, transpose, cast, const, tile, sub>>
hw_pattern(gr) ==
    TuplesToSeq({m \in KindNodes(gr, "ArmMaxPoolingWithArgMax") \X KindNodes(gr, "ArmTranspose")
                         \X KindNodes(gr, "ArmCast") \X KindNodes(gr, "Constant")
                         \X KindNodes(gr, "ArmTile") \X KindNodes(gr, "ArmEltwise") :
                    /\ HasEdge(gr, m[1], m[2], 1, 0)
                    /\ HasEdgeAny(gr, m[2], m[3])
                    /\ HasEdgeAny(gr, m[3], m[6])
                    /\ HasEdgeAny(gr, m[4], m[5])
                    /\ HasEdge(gr, m[5], m[6], 0, 1)})

\* the test of flatten_dim in merge_hw_maxpoolargmax, left out
hw_flatten_dim_any(obj) == TRUE

\* obj_dict['argmaxpool'].flatten_dim == 'NCHW'
hw_flatten_dim(obj) == obj.flat = "NCHW"

merge_hw_maxpoolargmax_match(r, m) ==
    LET gr == r.g
        argmaxpool == m[1]
        cast == m[3]
        const == m[4]
        tile == m[5]
        sub == m[6]
    IN  IF (\A n \in SeqSet(m) : ~ObjNone(gr, n))
           /\ gr.node[sub].method = "SUB" /\ hw_flatten_dim(gr.node[argmaxpool])
        THEN IF (\A n \in {const, tile} : Cardinality(OutEdges(gr, n)) = 1)
                /\ argmaxpool_shapes(gr.node[argmaxpool])
                /\ gr.node[const].value = HwSub
             THEN LET g1 == remove_edges_from(gr, InEdges(gr, sub))
                      g2 == MoveOutEdges(g1, sorted_out_edges(g1, sub), sub, cast)
                      g3 == replace_obj(g2, argmaxpool,
                                        [g2.node[argmaxpool] EXCEPT !.flat = "HW"])
                  IN  Hit(r, replace_output(g3, sub, cast))
             ELSE r
        ELSE Warn(r)

RECURSIVE merge_hw_maxpoolargmax_loop(_, _)
merge_hw_maxpoolargmax_loop(r, ms) ==
    IF ms = <<>> \/ r.exc THEN r
    ELSE merge_hw_maxpoolargmax_loop(merge_hw_maxpoolargmax_match(r, Head(ms)), Tail(ms))

merge_hw_maxpoolargmax(gr) ==
    LET r == merge_hw_maxpoolargmax_loop(Start(gr), hw_pattern(gr))
    IN  IF r.hit > 0 /\ ~r.exc THEN Crn(r, FALSE) ELSE r

-----------------------------------------------------------------------------
(* merge_group_conv: ArmSplit -> N ArmConvolution -> ArmConcat becomes one *)
(* ArmConvolution of group N.  The weights and biases are left out.        *)

\* matched_patterns for split -> conv_1 .. conv_group -> concat, conv_i on
\* out-port i - 1 of the split (in-port 0) and on in-port i - 1 of the concat
group_conv_pattern(gr, group) ==
    TuplesToSeq({<<x[1]>> \o x[2] \o <<x[3]>> :
        x \in {y \in KindNodes(gr, "ArmSplit")
                       \X [1..group -> KindNodes(gr, "ArmConvolution")]
                       \X KindNodes(gr, "ArmConcat") :
                 /\ \A i, j \in 1..group : i # j => y[2][i] # y[2][j]
                 /\ \A i \in 1..group :
                       /\ HasEdge(gr, y[1], y[2][i], i - 1, 0)
                       /\ HasEdge(gr, y[2][i], y[3], 0, i - 1)}})

\* the conditions under which a match is rewritten
group_conv_fusable(gr, m, group) ==
    LET split == m[1]
        concat == m[group + 2]
        convs == SubSeq(m, 2, group + 1)
    IN  /\ \A n \in SeqSet(m) : ~ObjNone(gr, n)
        /\ gr.node[split].split = group
        /\ Len(sorted_in_edges(gr, concat)) = group
        /\ \A i \in 1..group : Cardinality(OutEdges(gr, convs[i])) = 1
        /\ \A i \in 1..group : gr.node[convs[i]].group = 1
        /\ \A i \in 1..group : gr.node[convs[i]].activations = gr.node[convs[1]].activations

merge_group_conv_match(r, m, group) ==
    LET gr == r.g
        split == m[1]
        concat == m[group + 2]
        conv_names == SubSeq(m, 2, group + 1)
    IN  IF group_conv_fusable(gr, m, group)
        THEN LET in_edges == sorted_in_edges(gr, split)
             IN  IF in_edges = <<>> THEN Raise(r)
                 ELSE LET group_conv == get_valid_node_name(gr)
                          src == in_edges[1].src
                          g1 == add_edge(remove_edge(gr, src, split), src, group_conv,
                                         in_edges[1].sp, in_edges[1].dp)
                          g2 == MoveOutEdges(g1, sorted_out_edges(g1, concat), concat,
                                             group_conv)
                          g3 == replace_obj(g2, group_conv,
                                            [gr.node[conv_names[1]] EXCEPT !.group = group])
                      IN  Hit(r, ReplaceOut(g3, concat, group_conv))
        ELSE r

RECURSIVE merge_group_conv_loop(_, _, _)
merge_group_conv_loop(r, ms, group) ==
    IF ms = <<>> \/ r.exc THEN r
    ELSE merge_group_conv_loop(merge_group_conv_match(r, Head(ms), group), Tail(ms), group)

\* for group in list(range(2, max_groups)): ...; if matched: clear_redundant_nodes(graph)
RECURSIVE merge_group_conv_groups(_, _, _)
merge_group_conv_groups(r, group, max_groups) ==
    IF group >= max_groups \/ r.exc THEN r
    ELSE LET r1 == merge_group_conv_loop(r, group_conv_pattern(r.g, group), group)
             r2 == IF r1.hit > r.hit /\ ~r1.exc THEN Crn(r1, FALSE) ELSE r1
         IN  merge_group_conv_groups(r2, group + 1, max_groups)

merge_group_conv(gr, max_groups) ==
    merge_group_conv_groups([Start(gr) EXCEPT !.arg = max_groups], 2, max_groups)

-----------------------------------------------------------------------------
(* insert_preprocess: a Preprocess node of the plugin registry is put      *)
(* behind the Input nodes.                                                 *)

\* determined_sort(graph, terminals): the ancestors of the terminals, every
\* node after the nodes it depends on; among the nodes that are ready the
\* one with the least name comes first
RECURSIVE determined_sort_from(_, _, _)
determined_sort_from(gr, todo, done) ==
    LET ready == {n \in todo : \A e \in InEdges(gr, n) : e.src \notin todo}
    IN  IF todo = {} \/ ready = {} THEN done
        ELSE LET n == CHOOSE x \in ready : \A y \in ready : x <= y
             IN  determined_sort_from(gr, todo \ {n}, Append(done, n))

determined_sort(gr, terminals) ==
    determined_sort_from(gr, Ancestors(gr, SeqSet(terminals) \cap Nodes(gr)), <<>>)

\* sorted(names, key=lambda x: ds.index(x)) for names that are all in ds
SortByIndex(ds, names) == SelectSeq(ds, LAMBDA n : n \in names)

\* for _, dst, out_attr in out_edges: add_edge(preprocess, dst, **out_attr)
\* with src_out_port = port
RECURSIVE AddFrom(_, _, _, _)
AddFrom(gr, es, from, port) ==
    IF es = <<>> THEN gr
    ELSE AddFrom(add_edge(gr, from, Head(es).dst, port, Head(es).dp), Tail(es), from, port)

\* the loop over the Input nodes; a = [g, exc, base], i counts from 0
RECURSIVE preprocess_inputs(_, _, _, _)
preprocess_inputs(a, names, preprocess, i) ==
    IF names = <<>> \/ a.exc THEN a
    ELSE LET name == Head(names)
             out_edges == sorted_out_edges(a.g, name)
             g1 == remove_edges_from(a.g, OutEdges(a.g, name))
         IN  IF out_edges = <<>> THEN [a EXCEPT !.g = g1, !.exc = TRUE]   \* out_edges[0]
             ELSE LET g2 == add_edge(g1, name, preprocess, out_edges[1].sp, i)
                      g3 == AddFrom(g2, out_edges, preprocess, a.base)
                  IN  preprocess_inputs(
                          [a EXCEPT !.g = g3,
                                    !.base = @ + Len(get_out_ports(g3, name))],
                          Tail(names), preprocess, i + 1)

\* registry: PARSER_OP_DICT holds a Preprocess kind
insert_preprocess(gr, registry) ==
    LET r == [Start(gr) EXCEPT !.plugin = registry]
        ds == determined_sort(gr, gr.outs)
        input_names == KindNodes(gr, "Input") \cup KindNodes(gr, "ArmInput")
    IN  IF ~registry THEN r
        ELSE IF ds = <<>> \/ input_names = {} THEN Warn(r)
        ELSE IF ~(input_names \subseteq SeqSet(ds)) THEN Raise(r)         \* ds.index(x)
        ELSE IF \E n \in input_names : ObjNone(gr, n) THEN Warn(r)
        ELSE LET preprocess == get_valid_node_name(gr)
                 g1 == replace_obj([gr EXCEPT !.node = (preprocess :> Uninit) @@ @],
                                   preprocess, Op("Preprocess"))
                 a == preprocess_inputs([g |-> g1, exc |-> FALSE, base |-> 0],
                                        SortByIndex(ds, input_names), preprocess, 0)
             IN  IF a.exc THEN Raise([r EXCEPT !.g = a.g]) ELSE Hit(r, a.g)

-----------------------------------------------------------------------------
(* decompose_loop: a Loop whose trip count and condition are constants is  *)
(* unrolled.  A Loop node carries its body: body, the names of the body's  *)
(* nodes (they are nodes of the graph as well, and the edges of the body   *)
(* are the edges of the graph between them), body_outs, the body's         *)
(* output_names, and root_in, the number of the body's root_in_ports.  The *)
(* graph carries sub, its subgraph_output_names.  A tensor is constant     *)
(* when a Constant produces it, and its value is the Constant's value.     *)
(* The output port of the body's main output is port 0.                    *)

\* graph._attr.get('subgraph_output_names', None) is None
NoSubgraphOutputs == [set |-> FALSE, names |-> {}]

\* in_edges[k][2]['tensor'].is_const, with a value that is not None
TensorConst(gr, e) == ~ObjNone(gr, e.src) /\ Kind(gr, e.src) = "Constant"

TensorValue(gr, e) == gr.node[e.src].value

ConstLikeKinds == {"Constant", "Dummy"}

\* loop_obj.body, as a graph
loop_body(gr, loop) ==
    LET S == gr.node[loop].body \cap Nodes(gr)
    IN  [gr EXCEPT !.node = [n \in S |-> gr.node[n]],
                   !.edges = {e \in @ : e.src \in S /\ e.dst \in S}]

\* the nodes of the body whose inputs are all constant
const_node_list(gr, nodes) ==
    {n \in SeqSet(nodes) :
        /\ ~ObjNone(gr, n)
        /\ Kind(gr, n) \notin ConstLikeKinds
        /\ \A e \in InEdges(gr, n) : TensorConst(gr, e)}

\* F(x), with x evaluated once
With(x, F(_)) == CHOOSE y \in {F(v) : v \in {x}} : TRUE

\* the names the nodes made by one unrolling get: the stack, the copy of
\* the k-th body node in iteration i, the nc-th copy of the trip counter
CopyName(c, i, k) == c.free[1 + (i - 1) * Len(c.nodes) + k]

ConstName(c, nc) == c.free[1 + (c.count - 1) * Len(c.nodes) + nc + 1]

\* i = 0: the trip counter read by the body is reset; s = [g, last, nc, exc]
RECURSIVE unroll_first(_, _, _)
unroll_first(s0, c, k) ==
    With(s0, LAMBDA s :
        IF s.exc THEN s
        ELSE IF k > Len(c.nodes)
        THEN IF c.tensor THEN [s EXCEPT !.g = add_edge(s.g, c.main, c.stack, 0, 0)]
             ELSE [s EXCEPT !.exc = TRUE]                      \* main_out_tensor is unbound
        ELSE LET n == c.nodes[k]
                 reset == \E e \in InEdges(s.g, n) :
                              e.src = c.count_src /\ Kind(s.g, e.src) \in {"Dummy", "Constant"}
                 g1 == IF reset THEN replace_obj(s.g, c.count_src, Op("Constant")) ELSE s.g
             IN  IF ObjNone(c.pre, n) THEN [s EXCEPT !.g = g1, !.exc = TRUE]   \* n_obj.type
                 ELSE unroll_first([s EXCEPT !.g = g1], c, k + 1))

\* an in-edge from outside the body: the copy reads last_loop_res instead,
\* and becomes last_loop_res
outside_edge(s0, c, i, new_n, e) ==
    With(s0, LAMBDA s :
        [s EXCEPT !.g = add_edge(s.g, s.last, new_n, e.sp, e.dp), !.last = new_n])

\* i >= 1: the in-edges es[j..] of the k-th body node are copied to its copy
RECURSIVE unroll_in_edges(_, _, _, _, _, _)
unroll_in_edges(s0, c, i, k, es, j) ==
    With(s0, LAMBDA s :
        IF j > Len(es) \/ s.exc THEN s
        ELSE LET e == es[j]
                 n == c.nodes[k]
                 new_n == CopyName(c, i, k)
                 next ==
                     IF e.src \notin SeqSet(c.nodes)
                     THEN IF c.three /\ n \notin c.consts
                          THEN outside_edge(s, c, i, new_n, e)
                          ELSE IF e.src = c.count_src
                          THEN LET new_const == ConstName(c, s.nc)
                               IN  [s EXCEPT !.g = replace_obj(
                                                  add_edge(s.g, new_const, new_n, e.sp, e.dp),
                                                  new_const, [Op("Constant") EXCEPT !.value = i]),
                                             !.nc = @ + 1]
                          ELSE [s EXCEPT !.g = add_edge(s.g, e.src, new_n, e.sp, e.dp)]
                     ELSE LET src_n == CopyName(c, i, Index(c.nodes, e.src))
                              g1 == add_edge(s.g, src_n, new_n, e.sp, e.dp)
                          IN  IF ~ObjNone(g1, src_n) THEN [s EXCEPT !.g = g1]
                              ELSE IF ObjNone(c.pre, e.src) THEN [s EXCEPT !.g = g1, !.exc = TRUE]
                              ELSE [s EXCEPT !.g = replace_obj(g1, src_n, c.pre.node[e.src])]
             IN  unroll_in_edges(next, c, i, k, es, j + 1))

\* i >= 1: the k-th body node is copied; a node without in-edges is not
unroll_node(s0, c, i, k) ==
    With(s0, LAMBDA s :
        LET n == c.nodes[k]
            new_n == CopyName(c, i, k)
            es == sorted_in_edges(s.g, n)
        IN  IF es = << >> THEN s
            ELSE With(unroll_in_edges(s, c, i, k, es, 1), LAMBDA s1 :
                     IF s1.exc THEN s1
                     ELSE IF ObjNone(c.pre, n) THEN [s1 EXCEPT !.exc = TRUE]   \* n_obj.copied_attr()
                     ELSE [s1 EXCEPT !.g = IF n = c.main
                                           THEN add_edge(replace_obj(@, new_n, c.pre.node[n]),
                                                         new_n, c.stack, 0, i)
                                           ELSE replace_obj(@, new_n, c.pre.node[n])]))

RECURSIVE unroll_nodes(_, _, _, _)
unroll_nodes(s0, c, i, k) ==
    With(s0, LAMBDA s :
        IF k > Len(c.nodes) \/ s.exc THEN s
        ELSE unroll_nodes(unroll_node(s, c, i, k), c, i, k + 1))

\* for i in range(count)
RECURSIVE unroll(_, _, _)
unroll(s0, c, i) ==
    With(s0, LAMBDA s :
        IF i >= c.count \/ s.exc THEN s
        ELSE unroll(IF i = 0 THEN unroll_first(s, c, 1) ELSE unroll_nodes(s, c, i, 1), c, i + 1))

\* the consumers of the Loop read from src: all of them (which = 0) or the
\* second one only (which = 2); the edges from the Loop are removed
RECURSIVE loop_consumers(_, _, _, _, _, _)
loop_consumers(gr0, loop, es, j, src, which) ==
    With(gr0, LAMBDA gr :
        IF j > Len(es) THEN gr
        ELSE LET g1 == remove_edge(gr, loop, es[j].dst)
                 g2 == IF which = 0 \/ which = j
                       THEN add_edge(g1, src, es[j].dst, es[j].sp, es[j].dp) ELSE g1
             IN  loop_consumers(g2, loop, es, j + 1, src, which))

\* the unrolling of one Loop that passed the tests; a holds the run and the
\* local variables that outlive the match
\* the Loop is gone: its consumers read the stack
loop_stack(a, s, c, loop, loop_out_edges) ==
    LET n == Len(loop_out_edges)
        g2 == IF n = 1 THEN loop_consumers(s.g, loop, loop_out_edges, 1, c.stack, 0)
              ELSE IF n = 2 THEN loop_consumers(s.g, loop, loop_out_edges, 1, c.stack, 2)
              ELSE s.g
    IN  IF s.exc THEN [a EXCEPT !.last_loop_res = s.last, !.r = Raise([@ EXCEPT !.g = s.g])]
        ELSE [a EXCEPT !.last_loop_res = s.last,
                       !.r = Hit(IF n \in {1, 2} THEN @ ELSE Warn(@),
                                 With(g2, LAMBDA g3 :
                                     IF c.stack \in Nodes(g3)
                                     THEN replace_obj(g3, c.stack, Op("ConcatFromSequence"))
                                     ELSE g3))]

\* the local variables of one unrolling
loop_context(gr, a, loop, in_edges, nodes) ==
    With(SetToSeq(Ids \ Nodes(gr)), LAMBDA free :
        [pre |-> gr, nodes |-> nodes, main |-> a.main_out, tensor |-> a.tensor,
         three |-> Len(gr.node[loop].body_outs) = 3,
         consts |-> const_node_list(gr, nodes),
         count |-> TensorValue(gr, in_edges[1]), count_src |-> in_edges[1].src,
         free |-> free, stack |-> free[1]])

\* the unrolling of one Loop that passed the tests; a holds the run and the
\* local variables that outlive the match
decompose_loop_unroll(a, loop, in_edges, loop_out_edges, nodes) ==
    With(loop_context(a.r.g, a, loop, in_edges, nodes), LAMBDA c :
        LET a1 == [a EXCEPT !.matched = TRUE, !.stack = c.stack]
            g1 == remove_edges_from(a.r.g, SeqSet(in_edges))
        IN  IF ~a.condition
            THEN IF a.tail = 0 THEN [a1 EXCEPT !.r = Raise([@ EXCEPT !.g = g1])]
                 ELSE [a1 EXCEPT !.r = Hit(@, loop_consumers(g1, loop, loop_out_edges, 1, a.tail, 0))]
            ELSE With(unroll([g |-> g1, last |-> a.main_out, nc |-> 0, exc |-> FALSE], c, 0),
                      LAMBDA s : loop_stack(a1, s, c, loop, loop_out_edges)))

\* one Loop node of the graph
decompose_loop_body(a1, loop, in_edges, loop_out_edges, nodes) ==
    LET gr == a1.r.g
        main == a1.main_out
    IN  IF nodes # << >> /\ main \notin SeqSet(nodes) THEN [a1 EXCEPT !.r = Warn(@)]
        ELSE IF nodes # << >> /\ ~ObjNone(gr, main) /\ OutEdges(gr, main) = {} THEN a1
        ELSE decompose_loop_unroll(
                 [a1 EXCEPT !.tensor = @ \/ (nodes # << >> /\ ~ObjNone(gr, main))],
                 loop, in_edges, loop_out_edges, nodes)

decompose_loop_tests(a0, loop, in_edges, loop_out_edges) ==
    LET gr == a0.r.g
        obj == gr.node[loop]
    IN  IF ObjNone(gr, loop) \/ Len(in_edges) < 2 + obj.root_in \/ Len(loop_out_edges) < 1
        THEN [a0 EXCEPT !.r = Warn(@)]
        ELSE IF \/ Len(in_edges) \notin {2 + obj.root_in, 3 + obj.root_in}
                \/ ~TensorConst(gr, in_edges[1])
                \/ ~TensorConst(gr, in_edges[2])
        THEN a0
        ELSE LET three == Len(obj.body_outs) = 3
                 a1 == [a0 EXCEPT !.condition = TensorValue(gr, in_edges[2]) # 0,
                                  !.main_out = IF three THEN obj.body_outs[2] ELSE @,
                                  !.r = IF three THEN @ ELSE Warn(@)]
             IN  IF a1.main_out = 0 THEN [a1 EXCEPT !.r = Raise(@)]   \* subgraph_main_out is unbound
                 ELSE With(determined_sort(loop_body(gr, loop), <<a1.main_out>>), LAMBDA nodes :
                          decompose_loop_body(a1, loop, in_edges, loop_out_edges, nodes))

decompose_loop_match(la, loop) ==
    With(la, LAMBDA a :
        With(sorted_in_edges(a.r.g, loop), LAMBDA in_edges :
            With(sorted_out_edges(a.r.g, loop), LAMBDA loop_out_edges :
                decompose_loop_tests(
                    [a EXCEPT !.loop = loop,
                              !.tail = IF in_edges = << >> THEN 0
                                       ELSE in_edges[Len(in_edges)].src],
                    loop, in_edges, loop_out_edges))))

RECURSIVE decompose_loop_loop(_, _)
decompose_loop_loop(a0, ms) ==
    With(a0, LAMBDA a :
        IF ms = << >> \/ a.r.exc THEN a
        ELSE decompose_loop_loop(
                 IF Head(ms) \in Nodes(a.r.g) THEN decompose_loop_match(a, Head(ms)) ELSE a,
                 Tail(ms)))

\* the orders list(set(names)) can come in
Orders(S) ==
    {o \in [1..Cardinality(S) -> S] : \A i, j \in 1..Cardinality(S) : i # j => o[i] # o[j]}

\* decompose_loop(graph, params); order: the order in which
\* list(set(output_names).difference(subgraph_output_names)) comes
decompose_loop_outputs(a, order) ==
    LET r == a.r
    IN  IF r.exc \/ ~a.matched THEN r
        ELSE IF ~r.g.sub.set THEN Crn(r, FALSE)
        ELSE IF a.loop \notin SeqSet(order) THEN Crn([r EXCEPT !.g.outs = order], FALSE)
        ELSE IF ~a.condition /\ a.tail = 0 THEN Raise([r EXCEPT !.g.outs = order])
        ELSE Crn([r EXCEPT !.g.outs =
                      RemoveFirst(order, a.loop)
                        \o (IF a.condition THEN <<a.stack, a.last_loop_res>> ELSE <<a.tail>>)],
                 FALSE)

decompose_loop(gr, order) ==
    With(decompose_loop_loop(
             [r |-> Start(gr), matched |-> FALSE, loop |-> 0, condition |-> FALSE,
              stack |-> 0, last_loop_res |-> 0, tail |-> 0, main_out |-> 0,
              tensor |-> FALSE],
             single_node_matcher(gr, "Loop")),
         LAMBDA a : With(decompose_loop_outputs(a, order), LAMBDA r : r))

-----------------------------------------------------------------------------
(* Seed graphs: the graphs a pass can be handed.  Every seed is a DAG in   *)
(* which every node reaches an output, the in-ports of every node are      *)
(* 0..k-1 and every output name is a node.                                 *)

MkG(N, E, O) ==
    [node |-> N, edges |-> E, outs |-> O, quantize |-> FALSE, sub |-> NoSubgraphOutputs]

E0(s, d, sp, dp) == Edge(s, d, 0, sp, dp)

E1(s, d, sp, dp) == Edge(s, d, 1, sp, dp)

OpOk(k, o) == [Op(k) EXCEPT !.ok = o]

\* Input -> Sqrt -> Reciprocal [-> Relu | -> Mul on both ports], Sqrt with or
\* without a second consumer
SeedsRsqrt ==
    { MkG( (1 :> Op("Input") @@ 2 :> OpOk("Sqrt", o2) @@ 3 :> OpOk("Reciprocal", o3))
             @@ (IF tail = "none" THEN << >> ELSE 4 :> Op(IF tail = "mul" THEN "Mul" ELSE "Relu"))
             @@ (IF extra THEN 5 :> Op("Relu") ELSE << >>),
           {E0(1, 2, 0, 0), E0(2, 3, 0, 0)}
             \cup (IF tail = "none" THEN {} ELSE {E0(3, 4, 0, 0)})
             \cup (IF tail = "mul" THEN {E1(3, 4, 0, 1)} ELSE {})
             \cup (IF extra THEN {E0(2, 5, 0, 0)} ELSE {}),
           (IF tail = "none" THEN <<3>> ELSE IF both THEN <<3, 4>> ELSE <<4>>)
             \o (IF extra THEN <<5>> ELSE << >>) )
      : o2 \in BOOLEAN, o3 \in BOOLEAN, tail \in {"none", "relu", "mul"},
        extra \in BOOLEAN, both \in BOOLEAN }

\* Mul fed on port 0 by node 1 (port a) and on port 1 by node s2 (port b)
SeedsSquare ==
    { MkG( (1 :> Op("Split") @@ 3 :> OpOk("Mul", o) @@ 4 :> Op("Input"))
             @@ (IF s2 = 2 THEN 2 :> Op("Split") ELSE << >>),
           {E0(4, 1, 0, 0), E0(1, 3, a, 0),
            Edge(s2, 3, IF s2 = 1 THEN 1 ELSE 0, b, 1)}
             \cup (IF s2 = 2 THEN {E0(4, 2, 0, 0)} ELSE {}),
           <<3>> )
      : o \in BOOLEAN, s2 \in {1, 2}, a \in {0, 1}, b \in {0, 1} }

\* Input -> X -> Relu with X a Reduce, Moments (second output to another
\* Relu), CumSum (axis Constant on port 1) or CumProd
SeedsRename ==
    { MkG( (1 :> Op("Input")
             @@ 2 :> [Op(k) EXCEPT !.ok = o, !.keepdims = kd, !.shapes = sh]
             @@ 3 :> Op("Relu"))
             @@ (IF k = "Moments" THEN 4 :> Op("Relu")
                 ELSE IF k = "CumSum" THEN 4 :> Op("Constant") ELSE << >>),
           {E0(1, 2, 0, 0), E0(2, 3, 0, 0)}
             \cup (IF k = "Moments" THEN {E0(2, 4, 1, 0)} ELSE {})
             \cup (IF k = "CumSum" THEN {E0(4, 2, 0, 1)} ELSE {}),
           (IF first = 0 THEN << >> ELSE IF first = 1 THEN <<2>> ELSE <<3>>)
             \o (IF first = 2 THEN <<2>> ELSE <<3>>)
             \o (IF k = "Moments" THEN <<4>> ELSE << >>) )
      : k \in {"ReduceMean", "Moments", "CumSum", "CumProd"}, o \in BOOLEAN,
        kd \in BOOLEAN, sh \in BOOLEAN, first \in 0..2 }

\* a Constant feeding a consumer on port 1, itself a graph output or not; or
\* a Constant or Dummy with no consumer
SeedsConst ==
    { MkG( 1 :> Op("Input") @@ 2 :> Op(ck) @@ 3 :> Op(k),
           {E0(1, 3, 0, 0), E0(2, 3, 0, 1)},
           IF out THEN <<3, 2>> ELSE <<3>> )
      : ck \in {"Constant"}, k \in {"ArmReshape", "ArmEltwise", "Mul"}, out \in BOOLEAN }
    \cup
    { MkG( 1 :> Op("Input") @@ 2 :> Op(ck) @@ 3 :> Op("Relu"),
           {E0(1, 3, 0, 0)}, <<3, 2>> )
      : ck \in {"Constant", "Dummy"} }
    \cup
    { MkG( 1 :> Op("Input") @@ 2 :> Op("Constant") @@ 3 :> Op("Relu") @@ 4 :> Op("Out"),
           {E0(1, 3, 0, 0), E0(2, 4, 0, 0)}, <<3, 2>> ) }

\* ArmTranspose and ArmConstant feeding a two-input layout-unaware operator
\* that has a consumer; with two = TRUE the transpose feeds a second such
\* operator; path: the transpose also feeds the constant ("tc"), or the
\* constant feeds the transpose ("ct")
SeedsSinkConst ==
    { MkG( ((IF path = "ct" THEN << >> ELSE 1 :> Op("Input"))
             @@ 2 :> OpOk("ArmTranspose", o)
             @@ 3 :> [Op("ArmConstant") EXCEPT !.rank = rk] @@ 4 :> Op(uw)
             @@ 7 :> Op(IF two THEN "ArmConcat" ELSE "Relu"))
             @@ (IF two THEN 5 :> Op("ArmConstant") @@ 6 :> Op(uw) ELSE << >>),
           {E0(IF path = "ct" THEN 3 ELSE 1, 2, 0, 0),
            E0(2, 4, 0, tp), E0(3, 4, 0, 1 - tp), E0(4, 7, 0, 0)}
             \cup (IF path = "tc" THEN {E0(2, 3, 0, 0)} ELSE {})
             \cup (IF two THEN {E0(2, 6, 0, 0), E0(5, 6, 0, 1), E0(6, 7, 0, 1)} ELSE {}),
           IF uo THEN <<4, 7>> ELSE <<7>> )
      : o \in BOOLEAN, rk \in {1, 4}, uw \in {"ArmEltwise", "ArmPow"},
        tp \in {0, 1}, two \in BOOLEAN, uo \in BOOLEAN, path \in {"none", "tc", "ct"} }

\* ArmTranspose -> ArmSplit: one split with two used output ports, one
\* transpose shared by two splits, or two independent chains
SeedsSplit ==
    { MkG( 1 :> Op("Input") @@ 2 :> Op("ArmTranspose") @@ 3 :> OpOk("ArmSplit", o)
             @@ 4 :> Op("Relu") @@ 5 :> Op("Relu"),
           {E0(1, 2, 0, 0), E0(2, 3, 0, 0), E0(3, 4, 0, 0), E0(3, 5, 1, 0)},
           IF so THEN <<4, 3, 5>> ELSE <<4, 5>> )
      : o \in BOOLEAN, so \in BOOLEAN }
    \cup
    { MkG( 1 :> Op("Input") @@ 2 :> Op("ArmTranspose") @@ 3 :> OpOk("ArmSplit", o)
             @@ 4 :> Op("Relu") @@ 5 :> Op("ArmSplit") @@ 6 :> Op("Relu"),
           {E0(1, 2, 0, 0), E0(2, 3, 0, 0), E0(3, 4, 0, 0), E0(2, 5, 0, 0), E0(5, 6, 0, 0)},
           <<4, 6>> )
      : o \in BOOLEAN }
    \cup
    { MkG( 1 :> Op("Input") @@ 2 :> Op("ArmTranspose") @@ 3 :> OpOk("ArmSplit", o)
             @@ 4 :> Op("Relu") @@ 5 :> Op("ArmTranspose") @@ 6 :> Op("ArmSplit")
             @@ 7 :> Op("Relu"),
           {E0(1, 2, 0, 0), E0(2, 3, 0, 0), E0(3, 4, 0, 0),
            E0(1, 5, 0, 0), E0(5, 6, 0, 0), E0(6, 7, 0, 0)},
           <<4, 7>> )
      : o \in BOOLEAN }

\* Or(Greater|Less(a, b), Equal(a, b)); with extra = TRUE the comparison has a
\* second consumer
SeedsLogical ==
    { MkG( (1 :> Op("Input") @@ 2 :> Op("Input") @@ 3 :> Op(op) @@ 4 :> Op("Equal")
             @@ 5 :> OpOk("Or", o))
             @@ (IF extra THEN 6 :> Op("Relu") ELSE << >>),
           {E0(1, 3, 0, 0), E0(2, 3, 0, 1), E0(1, 4, 0, 0), E0(2, 4, 0, 1),
            E0(3, 5, 0, q), E0(4, 5, 0, 1 - q)}
             \cup (IF extra THEN {E0(3, 6, 0, 0)} ELSE {}),
           <<5>> \o (IF extra THEN <<6>> ELSE << >>) )
      : op \in {"Greater", "Less"}, o \in BOOLEAN, q \in {0, 1}, extra \in BOOLEAN }

\* indices -> Add(offsets Constant on port cp) -> Cast -> Transpose ->
\* port 1 of ArmMaxUnpool
SeedsMaxUnpool ==
    { MkG( 1 :> Op("Input") @@ 2 :> [Op("Constant") EXCEPT !.method = cm]
             @@ 3 :> [Op("ArmEltwise") EXCEPT !.method = "ADD", !.ok = o]
             @@ 4 :> Op("ArmCast") @@ 5 :> Op("ArmTranspose")
             @@ 6 :> [Op("ArmMaxUnpool") EXCEPT !.flat = "NCHW"] @@ 7 :> Op("Input"),
           {E0(1, 3, 0, 1 - cp), E0(2, 3, 0, cp), E0(3, 4, 0, 0), E0(4, 5, 0, 0),
            E0(7, 6, 0, 0), E0(5, 6, 0, 1)},
           <<6>> )
      : cm \in {"OFFSETS", ""}, o \in BOOLEAN, cp \in {0, 1} }

\* an operator with weights (port 1) and, with hb = TRUE, biases (port 2),
\* each a Constant or a computed input
SeedsWeights ==
    { MkG( (1 :> Op("Input") @@ 2 :> Op(IF wc THEN "Constant" ELSE "Input")
             @@ 4 :> [Op("Conv") EXCEPT !.ok = o, !.hasw = TRUE, !.hasb = hb])
             @@ (IF hb THEN 3 :> Op(IF bc THEN "Constant" ELSE "Input") ELSE << >>),
           {E0(1, 4, 0, 0), E0(2, 4, 0, 1)}
             \cup (IF hb THEN {E0(3, 4, 0, 2)} ELSE {}),
           <<4>> )
      : wc \in BOOLEAN, bc \in BOOLEAN, hb \in BOOLEAN, o \in BOOLEAN }

\* x -> DequantizeLinear (a and b) -> MatMul -> QuantizeLinear, the scale a
\* Constant (or a computed input), a with or without a zero point input
SeedsQMatMul ==
    { [ MkG( (1 :> Op("Input") @@ 2 :> Op(IF sc THEN "Constant" ELSE "Input")
               @@ 3 :> OpOk("DequantizeLinear", o) @@ 4 :> Op("DequantizeLinear")
               @@ 5 :> Op("MatMul") @@ 6 :> Op("QuantizeLinear"))
               @@ (IF zp THEN 7 :> Op("Constant") ELSE << >>),
             {E0(1, 3, 0, 0), E0(2, 3, 0, 1), E0(1, 4, 0, 0), E0(2, 4, 0, 1),
              E0(3, 5, 0, 0), E0(4, 5, 0, 1), E0(5, 6, 0, 0), E0(2, 6, 0, 1)}
               \cup (IF zp THEN {E0(7, 3, 0, 2)} ELSE {}),
             <<6>> ) EXCEPT !.quantize = q ]
      : sc \in BOOLEAN, o \in BOOLEAN, zp \in BOOLEAN, q \in BOOLEAN }

\* two ArmTranspose nodes (equal perm or not) feeding ports 0 and 1 of an
\* ArmEltwise that has a consumer
SeedsDouble ==
    { MkG( 1 :> Op("Input") @@ 2 :> Op("Input")
             @@ 3 :> OpOk("ArmTranspose", o)
             @@ 4 :> [Op("ArmTranspose") EXCEPT !.perm = pm]
             @@ 5 :> Op("ArmEltwise") @@ 6 :> Op("Relu"),
           {E0(1, 3, 0, 0), E0(2, 4, 0, 0), E0(3, 5, 0, 0), E0(4, 5, 0, 1), E0(5, 6, 0, 0)},
           IF uo THEN <<5, 6>> ELSE <<6>> )
      : o \in BOOLEAN, pm \in {0, 1}, uo \in BOOLEAN }

\* a Constant (value v) feeding a Pow or Mul on port cdp from its port csp,
\* an Input on the other port; with two = TRUE the Constant is also the
\* exponent of a second Pow
SeedsPow ==
    { MkG( (1 :> Op("Input") @@ 2 :> [Op("Constant") EXCEPT !.value = v]
             @@ 3 :> OpOk(kb, o))
             @@ (IF two THEN 5 :> Op("Pow") ELSE << >>),
           {E0(1, 3, 0, 1 - cdp), E0(2, 3, csp, cdp)}
             \cup (IF two THEN {E0(1, 5, 0, 0), E0(2, 5, 0, 1)} ELSE {}),
           <<3>> \o (IF two THEN <<5>> ELSE << >>) )
      : v \in {2, 3}, kb \in {"Pow", "Mul"}, o \in BOOLEAN, cdp \in {0, 1},
        csp \in {0, 1}, two \in BOOLEAN }

\* Input -> Transpose -> DepthToSpace -> Transpose -> one or two consumers,
\* each a Slice or not
SeedsB2S ==
    { MkG( (1 :> Op("Input") @@ 2 :> [Op("Transpose") EXCEPT !.perm = p1]
             @@ 3 :> Op("DepthToSpace")
             @@ 4 :> [OpOk("Transpose", o) EXCEPT !.perm = 1]
             @@ 5 :> Op(ka))
             @@ (IF two THEN 6 :> Op(kb) ELSE << >>),
           {E0(1, 2, 0, 0), E0(2, 3, 0, 0), E0(3, 4, 0, 0), E0(4, 5, 0, 0)}
             \cup (IF two THEN {E0(4, 6, 0, 0)} ELSE {}),
           <<5>> \o (IF two THEN <<6>> ELSE << >>) )
      : p1 \in {0, 1}, o \in BOOLEAN, ka \in {"Slice", "Relu"}, kb \in {"Slice", "Relu"},
        two \in BOOLEAN }

\* Input -> ArmTranspose -> U -> consumers.  "one": a single consumer;
\* "fan": two consumers, one of them on in-port 1; "chain": the consumer is a
\* second ArmTranspose -> ArmActivation pair; "tfan": the transpose has a
\* second consumer
SeedsSingle ==
    { MkG( (1 :> Op("Input") @@ 2 :> OpOk("ArmTranspose", o)
             @@ 3 :> [Op(uk) EXCEPT !.shapes = sh]
             @@ 4 :> Op(IF shape = "chain" THEN "ArmTranspose" ELSE "Relu"))
             @@ (IF shape = "fan" THEN 5 :> Op("ArmConcat")
                 ELSE IF shape = "chain" THEN 5 :> Op("ArmActivation") @@ 6 :> Op("Relu")
                 ELSE IF shape = "tfan" THEN 5 :> Op("Relu") ELSE << >>),
           {E0(1, 2, 0, 0), E0(2, 3, 0, 0), E0(3, 4, 0, 0)}
             \cup (IF shape = "fan" THEN {E0(4, 5, 0, 0), E0(3, 5, 0, 1)}
                   ELSE IF shape = "chain" THEN {E0(4, 5, 0, 0), E0(5, 6, 0, 0)}
                   ELSE IF shape = "tfan" THEN {E0(2, 5, 0, 0)} ELSE {}),
           (IF uo THEN <<3>> ELSE << >>)
             \o (IF shape = "fan" THEN <<5>>
                 ELSE IF shape = "chain" THEN <<6>>
                 ELSE IF shape = "tfan" THEN <<4, 5>> ELSE <<4>>) )
      : o \in BOOLEAN, sh \in BOOLEAN, uk \in {"ArmActivation", "ArmCast", "ArmEltwise"},
        uo \in BOOLEAN, shape \in {"one", "fan", "chain", "tfan"} }

\* one or two Input nodes (the second with or without an operator object)
\* feeding an ArmEltwise and a Relu; with dead = TRUE a third Input that no
\* output depends on
SeedsInputs ==
    { MkG( (1 :> Op(ik) @@ 4 :> Op("ArmEltwise") @@ 5 :> Op("Relu"))
             @@ (IF two THEN 2 :> OpOk("Input", o) ELSE << >>)
             @@ (IF dead THEN 3 :> Op("Input") ELSE << >>),
           {E0(IF first = 1 THEN 1 ELSE 4, 5, 0, 0), E0(1, 4, 0, first)}
             \cup (IF two THEN {E0(2, 4, 0, 1 - first)} ELSE {}),
           <<4, 5>> )
      : ik \in {"Input", "ArmInput"}, two \in BOOLEAN, o \in BOOLEAN, dead \in BOOLEAN,
        first \in {0, 1} }

\* Input -> ArmSplit -> n ArmConvolution -> ArmConcat [-> Relu], the split
\* into sl parts, the first convolution of group gp with or without a
\* second consumer, the last with activation act
SeedsGroup ==
    { MkG( (1 :> Op("Input") @@ 2 :> [Op("ArmSplit") EXCEPT !.split = sl]
              @@ 3 :> [Op("ArmConvolution") EXCEPT !.group = gp]
              @@ 4 :> [Op("ArmConvolution") EXCEPT !.activations = IF n = 2 THEN act ELSE "NONE"]
              @@ 6 :> OpOk("ArmConcat", o))
             @@ (IF n = 3 THEN 5 :> [Op("ArmConvolution") EXCEPT !.activations = act]
                 ELSE << >>)
             @@ (IF tail THEN 7 :> Op("Relu") ELSE << >>)
             @@ (IF extra THEN 8 :> Op("Relu") ELSE << >>),
           {E0(1, 2, 0, 0), E0(2, 3, 0, 0), E0(2, 4, 1, 0), E0(3, 6, 0, 0), E0(4, 6, 0, 1)}
             \cup (IF n = 3 THEN {E0(2, 5, 2, 0), E0(5, 6, 0, 2)} ELSE {})
             \cup (IF tail THEN {E0(6, 7, 0, 0)} ELSE {})
             \cup (IF extra THEN {E0(3, 8, 0, 0)} ELSE {}),
           (IF tail THEN <<7>> ELSE <<6>>) \o (IF extra THEN <<8>> ELSE << >>) )
      : n \in {2, 3}, sl \in {2, 3}, gp \in {1, 2}, act \in {"NONE", "RELU"},
        o \in BOOLEAN, tail \in BOOLEAN, extra \in BOOLEAN }

\* x, weights and biases through a DequantizeLinear each into a Conv or
\* ConvTranspose [-> Relu] -> QuantizeLinear; node 2 is the scale of all
SeedsQConv ==
    { [ MkG( (1 :> Op("Input") @@ 2 :> Op("Constant")
               @@ 3 :> OpOk("DequantizeLinear", o) @@ 4 :> Op("DequantizeLinear")
               @@ 5 :> [Op("DequantizeLinear") EXCEPT !.value = bv]
               @@ 6 :> Op(IF wc THEN "Constant" ELSE "Input") @@ 7 :> Op("Constant")
               @@ 8 :> Op(ck) @@ 9 :> Op("QuantizeLinear"))
               @@ (IF relu THEN 10 :> Op("Relu") ELSE << >>),
             {E0(1, 3, 0, 0), E0(2, 3, 0, 1), E0(6, 4, 0, 0), E0(2, 4, 0, 1),
              E0(7, 5, 0, 0), E0(2, 5, 0, 1), E0(3, 8, 0, 0), E0(4, 8, 0, 1),
              E0(5, 8, 0, 2), E0(2, 9, 0, 1)}
               \cup (IF relu THEN {E0(8, 10, 0, 0), E0(10, 9, 0, 0)} ELSE {E0(8, 9, 0, 0)}),
             <<9>> ) EXCEPT !.quantize = q ]
      : o \in BOOLEAN, bv \in {0, 1}, wc \in BOOLEAN, ck \in {"Conv", "ConvTranspose"},
        relu \in BOOLEAN, q \in BOOLEAN }

\* Input -> DequantizeLinear -> Relu, Sigmoid or Clip -> QuantizeLinear, the
\* bounds of the Clip constants or not
SeedsQUnary ==
    { [ MkG( (1 :> Op("Input") @@ 2 :> Op("Constant") @@ 3 :> OpOk("DequantizeLinear", o)
               @@ 4 :> Op(fk) @@ 5 :> [Op("QuantizeLinear") EXCEPT !.value = zv])
               @@ (IF fk = "Clip"
                   THEN 6 :> Op(IF cc THEN "Constant" ELSE "Input") @@ 7 :> Op("Constant")
                   ELSE << >>),
             {E0(1, 3, 0, 0), E0(2, 3, 0, 1), E0(3, 4, 0, 0), E0(4, 5, 0, 0), E0(2, 5, 0, 1)}
               \cup (IF fk = "Clip" THEN {E0(6, 4, 0, 1), E0(7, 4, 0, 2)} ELSE {}),
             <<5>> ) EXCEPT !.quantize = q ]
      : o \in BOOLEAN, fk \in {"Relu", "Sigmoid", "Clip"}, zv \in {0, 32}, cc \in BOOLEAN,
        q \in BOOLEAN }

\* Input -> DequantizeLinear (3) and DequantizeLinear or Relu (4) -> Concat ->
\* QuantizeLinear
SeedsQMultiple ==
    { [ MkG( 1 :> Op("Input") @@ 2 :> Op("Constant") @@ 3 :> OpOk("DequantizeLinear", o)
               @@ 4 :> Op(k4) @@ 5 :> Op("Concat") @@ 6 :> Op("QuantizeLinear"),
             {E0(1, 3, 0, 0), E0(2, 3, 0, 1), E0(1, 4, 0, 0), E0(3, 5, 0, 0), E0(4, 5, 0, 1),
              E0(5, 6, 0, 0), E0(2, 6, 0, 1)}
               \cup (IF k4 = "DequantizeLinear" /\ sc THEN {E0(2, 4, 0, 1)} ELSE {}),
             <<6>> ) EXCEPT !.quantize = q ]
      : o \in BOOLEAN, k4 \in {"DequantizeLinear", "Relu"}, sc \in BOOLEAN, q \in BOOLEAN }

\* Inputs 1 and 2 (out-port sp) -> SequenceConstruct 3 (one or two inputs)
\* -> SequenceAt 5 with the position from node 4 -> Mul 6 on in-port d
SeedsSequence ==
    { MkG( 1 :> Op("Input") @@ 2 :> Op("Input") @@ 3 :> OpOk("SequenceConstruct", o)
             @@ 4 :> [Op(IF pc THEN "Constant" ELSE "Input") EXCEPT !.value = pos]
             @@ 5 :> Op("SequenceAt") @@ 6 :> Op("Mul"),
           {E0(1, 3, 0, 0), E0(3, 5, 0, 0), E0(4, 5, 0, 1), E0(5, 6, 0, d),
            E0(1, 6, 0, 1 - d)}
             \cup (IF two THEN {E0(2, 3, sp, 1)} ELSE {}),
           outs )
      : o \in BOOLEAN, pc \in BOOLEAN, pos \in -3..2, d \in {0, 1}, two \in BOOLEAN,
        sp \in {0, 1}, outs \in {<<6>>, <<5, 6>>, <<6, 5>>} }

\* a Constant feeding two Arm consumers on in-port 1, each an ArmReshape
\* (one declared input) or an ArmEltwise (two declared inputs)
SeedsConstShared ==
    { MkG( 1 :> Op("Input") @@ 2 :> Op("Constant") @@ 3 :> Op(k3) @@ 4 :> Op(k4),
           {E0(1, 3, 0, 0), E0(1, 4, 0, 0), E0(2, 3, 0, 1), E0(2, 4, 0, 1)},
           <<3, 4>> )
      : k3 \in {"ArmReshape", "ArmEltwise"}, k4 \in {"ArmReshape", "ArmEltwise"} }

\* Input -> Sqrt -> Reciprocal [-> Relu] with the Sqrt an output of the graph
\* as well
SeedsRsqrtOutputs ==
    { MkG( (1 :> Op("Input") @@ 2 :> Op("Sqrt") @@ 3 :> Op("Reciprocal"))
             @@ (IF tail THEN 4 :> Op("Relu") ELSE << >>),
           {E0(1, 2, 0, 0), E0(2, 3, 0, 0)} \cup (IF tail THEN {E0(3, 4, 0, 0)} ELSE {}),
           outs \o (IF tail THEN <<4>> ELSE << >>) )
      : tail \in BOOLEAN, outs \in {<<2, 3>>, <<3, 2>>, <<2>>} }

Seeds ==
    SeedsRsqrt \cup SeedsSquare \cup SeedsRename \cup SeedsConst \cup SeedsSinkConst
      \cup SeedsSplit \cup SeedsLogical \cup SeedsMaxUnpool \cup SeedsWeights
      \cup SeedsQMatMul \cup SeedsDouble \cup SeedsPow \cup SeedsB2S
      \cup SeedsSingle \cup SeedsInputs \cup SeedsGroup \cup SeedsRsqrtOutputs
      \cup SeedsQConv \cup SeedsQUnary \cup SeedsQMultiple \cup SeedsSequence \cup SeedsConstShared

-----------------------------------------------------------------------------
(* The passes as actions: one pass runs to completion on the graph.        *)

NoPass ==
    [pass |-> "", pre |-> MkG(<< >>, {}, << >>), exc |-> FALSE, crn |-> 0,
     inloop |-> FALSE, diag |-> 0, partial |-> FALSE, hit |-> 0, plugin |-> FALSE,
     arg |-> 0]

DrvIdle == [pc |-> "idle"]

Init ==
    /\ g \in Seeds
    /\ last = NoPass
    /\ steps = 0
    /\ drv = DrvIdle

\* the pass p ran on g with the result r
Apply(p, r) ==
    /\ steps < MaxPasses
    /\ g' = r.g
    /\ last' = [pass |-> p, pre |-> g, exc |-> r.exc, crn |-> r.crn,
                inloop |-> r.inloop, diag |-> r.diag, partial |-> r.partial,
                hit |-> r.hit, plugin |-> r.plugin, arg |-> r.arg]
    /\ steps' = steps + 1
    /\ UNCHANGED drv

Do_merge_rsqrt == Apply("merge_rsqrt", merge_rsqrt(g))

Do_merge_square2 == Apply("merge_square2", merge_square2(g))

Do_rename_cum == Apply("rename_cum", rename_cum(g))

Do_rename_reduce ==
    /\ Room(g, 2 * Cardinality({n \in Nodes(g) : \E i \in 1..Len(ReduceKinds) : Kind(g, n) = ReduceKinds[i]}))
    /\ Apply("rename_reduce", rename_reduce(g))

Do_rename_moments ==
    /\ Room(g, 2 * Cardinality({e \in g.edges : Kind(g, e.src) = "Moments"}))
    /\ Apply("rename_moments", rename_moments(g))

Do_remove_const == Apply("remove_const", remove_const(g))

Do_sink_transpose_with_const ==
    /\ Room(g, Cardinality({n \in Nodes(g) : Kind(g, n) = "ArmConstant"}))
    /\ Apply("sink_transpose_with_const", sink_transpose_with_const(g))

Do_sink_transpose_through_split ==
    /\ Room(g, Cardinality({e \in g.edges : Kind(g, e.src) = "ArmSplit"}))
    /\ Apply("sink_transpose_through_split", sink_transpose_through_split(g))

Do_merge_greater_less_equal_or ==
    Apply("merge_greater_less_equal_or", merge_greater_less_equal_or(g))

Do_merge_hw_maxunpool == Apply("merge_hw_maxunpool", merge_hw_maxunpool(g))

Do_fuse_weights_const == Apply("fuse_weights_const", fuse_weights_const(g))

Do_sink_double_transpose ==
    /\ Room(g, Cardinality({n \in Nodes(g) : Kind(g, n) \in SeqSet(UnawareTypes)}))
    /\ Apply("sink_double_transpose", sink_double_transpose(g))

Do_merge_qmatmul ==
    /\ Room(g, 3 * Cardinality(KindNodes(g, "MatMul")))
    /\ Apply("merge_qmatmul", merge_qmatmul(g))

Do_merge_square == Apply("merge_square", merge_square(g))

Do_merge_b2s == \E attr \in BOOLEAN : Apply("merge_b2s", merge_b2s(g, attr))

Do_sink_single_transpose == Apply("sink_single_transpose", sink_single_transpose(g))

Do_insert_preprocess ==
    /\ Room(g, 1)
    /\ \E registry \in BOOLEAN : Apply("insert_preprocess", insert_preprocess(g, registry))

Do_merge_group_conv ==
    /\ Room(g, Cardinality(KindNodes(g, "ArmConcat")))
    /\ \E max_groups \in 2..MaxGroups :
         Apply("merge_group_conv", merge_group_conv(g, max_groups))

Do_merge_qconv ==
    /\ Room(g, 8 * Cardinality(KindNodes(g, "Conv")))
    /\ Apply("merge_qconv", merge_qconv(g))

Do_merge_q_multiple ==
    \E op_list \in {{}, {"Concat"}} : Apply("merge_q_multiple", merge_q_multiple(g, op_list))

Do_merge_q_unary ==
    /\ Room(g, 2 * Cardinality(KindNodes(g, "Clip")))
    /\ \E op_list \in {{}, {"Relu", "Sigmoid", "Clip"}} :
         Apply("merge_q_unary", merge_q_unary(g, op_list))

Do_merge_sequence_construct_and_at ==
    Apply("merge_sequence_construct_and_at", merge_sequence_construct_and_at(g))

Next ==
    \/ Do_merge_rsqrt
    \/ Do_merge_square2
    \/ Do_rename_cum
    \/ Do_rename_reduce
    \/ Do_rename_moments
    \/ Do_remove_const
    \/ Do_sink_transpose_with_const
    \/ Do_sink_transpose_through_split
    \/ Do_merge_greater_less_equal_or
    \/ Do_merge_hw_maxunpool
    \/ Do_fuse_weights_const
    \/ Do_merge_qmatmul
    \/ Do_sink_double_transpose
    \/ Do_merge_square
    \/ Do_merge_b2s
    \/ Do_sink_single_transpose
    \/ Do_insert_preprocess
    \/ Do_merge_group_conv
    \/ Do_merge_qconv
    \/ Do_merge_q_multiple
    \/ Do_merge_q_unary
    \/ Do_merge_sequence_construct_and_at

Spec == Init /\ [][Next]_vars

-----------------------------------------------------------------------------
(* back_passes: the driver.  The passes are opaque calls here: a call      *)
(* returns, possibly with a changed node count, or raises.                 *)

MaxChange == 2

MaxExc == 3

\* len(graph) when back_passes is called
Sizes == {0, 224, 225, 240, 299, 300, 1000}

Frameworks == {"ONNX", "CAFFE", "TENSORFLOW", "TFLITE"}

\* an order in which lowering comes before decomposition and fusion
PrePassesShuffled ==
    <<"rename_cum", "split_mean", "merge_rsqrt", "convert_uni_lstm", "detection_post_process",
      "fuse_relu", "fuse_const", "remove_const">>

\* an order in which Sqrt and Reciprocal are renamed before merge_rsqrt runs
PrePassesRenamedFirst ==
    <<"simple_rename:Sqrt", "simple_rename:Reciprocal", "merge_rsqrt", "fuse_const",
      "remove_const">>

\* the calls before the layout-cleanup loop, in order
PrePasses ==
    <<
       "broadcast_prelu", "merge_squared_diff", "merge_square",
       "merge_square2", "multidirectional_broadcasting", "split_mean",
       "split_sum", "convert_uni_gru", "convert_bi_gru", "convert_uni_lstm",
       "convert_bi_lstm", "merge_b2s", "merge_b2s_nd", "merge_s2b",
       "merge_s2b_nd", "merge_rsqrt", "merge_not_equal",
       "merge_greater_less_equal_or", "split_crd_d2s", "split_expand",
       "rename_argminmax", "rename_bitwise", "rename_cum", "rename_bn",
       "rename_cast", "rename_compress", "rename_conv", "rename_gemm",
       "rename_generate_proposals", "rename_gridsample", "rename_logical",
       "rename_matmulinteger", "rename_maxunpool", "rename_moments",
       "rename_mul_add_max_min", "rename_normalization", "rename_onehot",
       "rename_pad", "rename_pool", "rename_reduce", "rename_reshape",
       "rename_resize", "rename_roipool", "rename_roialign",
       "rename_scatternd", "rename_scatterel", "rename_slice",
       "rename_softmax", "rename_tile", "rename_topk", "rename_where",
       "simple_rename:Abs", "simple_rename:AccidentalHits",
       "simple_rename:Acos", "simple_rename:Acosh", "simple_rename:Asin",
       "simple_rename:Asinh", "simple_rename:BatchGather",
       "simple_rename:BitShift", "simple_rename:BNLL", "simple_rename:Ceil",
       "simple_rename:ChannelShuffle", "simple_rename:Concat",
       "simple_rename:Cos", "simple_rename:Cosh",
       "simple_rename:CropAndResize", "simple_rename:CTCGreedyDecoder",
       "simple_rename:DepthToSpace", "simple_rename:Div",
       "simple_rename:Erf", "simple_rename:Exp", "simple_rename:Erosion",
       "simple_rename:Dilation", "simple_rename:Filter",
       "simple_rename:Floor", "simple_rename:FullyConnected",
       "simple_rename:Gather", "simple_rename:GatherND",
       "simple_rename:GatherElements", "simple_rename:Input",
       "simple_rename:InstanceNormalization", "simple_rename:InTopK",
       "simple_rename:LayerNorm", "simple_rename:Log",
       "simple_rename:LogSoftmax", "simple_rename:LRN",
       "simple_rename:MatMul", "simple_rename:MeanVarianceNormalization",
       "simple_rename:Meshgrid", "simple_rename:Mod", "simple_rename:Neg",
       "simple_rename:Pow", "simple_rename:ReverseSequence",
       "simple_rename:Reciprocal", "simple_rename:Round",
       "simple_rename:SegmentReduce", "simple_rename:Sign",
       "simple_rename:Sin", "simple_rename:Sinh",
       "simple_rename:SpaceToDepth", "simple_rename:Split",
       "simple_rename:Sqrt", "simple_rename:Tan", "simple_rename:Transpose",
       "simple_rename:ZeroFraction", "fuse_relu", "rename_activations",
       "merge_group_conv", "detection_post_process", "adjust_5d_to_4d",
       "adjust_pow", "merge_nhwc_maxpoolargmax", "merge_hwc_maxpoolargmax",
       "merge_hw_maxpoolargmax", "merge_hw_maxunpool", "merge_s2b_pool_b2s",
       "remove_redundant_bn", "remove_redundant_reshape",
       "remove_redundant_transpose", "remove_useless_op", "fuse_const",
       "remove_const" >>

sink_passes ==
    <<"sink_transpose_through_split", "sink_transpose_through_concat",
      "sink_transpose_through_special_reshape", "sink_transpose_through_tile",
      "sink_single_transpose", "sink_double_transpose", "sink_transpose_with_const">>

RECURSIVE sink_calls(_)
sink_calls(fs) ==
    IF fs = <<>> THEN <<>>
    ELSE <<Head(fs), "remove_redundant_transpose_pro", "remove_redundant_transpose",
           "remove_useless_op">> \o sink_calls(Tail(fs))

\* an iteration that legalizes dtypes inside the loop
LoopCallsWithCast == <<"remove_redundant_reshape", "insert_cast_if_must", "sink_single_transpose">>

\* the calls of one iteration of the loop, in order
LoopCalls == <<"remove_redundant_reshape">> \o sink_calls(sink_passes)

\* the calls after the loop, in order
TailPasses == <<"insert_cast_if_must", "remove_redundant_cast", "insert_preprocess">>

Min(a, b) == IF a < b THEN a ELSE b

Max(a, b) == IF a > b THEN a ELSE b

\* a bound without the upper clamp
iter_times_unclamped(n) == Max(n \div 15, 15)

\* iter_times = min(max(len(graph) // 15, 15), 20)
iter_times(n) == Min(Max(n \div 15, 15), 20)

\* a call that returns may have added or removed a node
Returned(d, delta) == [d EXCEPT !.n = @ + delta, !.chg = @ + (IF delta = 0 THEN 0 ELSE 1)]

Deltas(d) == {0} \cup (IF d.chg < MaxChange THEN {1} \cup (IF d.n > 0 THEN {-1} ELSE {}) ELSE {})

\* the end of iteration i of "for i in range(iter_times)"
NextIter(d) ==
    IF d.i + 1 < d.iter_times
    THEN [d EXCEPT !.i = @ + 1, !.pos = 1]
    ELSE [d EXCEPT !.i = @ + 1, !.pos = 1, !.pc = "tail", !.k = 1]

\* a loop without the try: the exception leaves back_passes
HandlerMissing(d) == [d EXCEPT !.excs = @ + 1, !.from = "loop", !.pc = "raised"]

\* except Exception as e: WARN(...); infer(graph)
Handler(d) == NextIter([d EXCEPT !.excs = @ + 1, !.warns = @ + 1, !.infers = @ + 1])

\* an exception that nothing catches leaves back_passes
Escape(d) == [d EXCEPT !.from = d.pc, !.pc = "raised"]

DrvStart(fw, n) ==
    [pc |-> "pre", fw |-> fw, n |-> n, chg |-> 0, k |-> 1, iter_times |-> 0, n0 |-> 0,
     i |-> 0, pos |-> 1, excs |-> 0, warns |-> 0, infers |-> 0, ran |-> <<>>, from |-> ""]

DInit ==
    /\ g = MkG(<< >>, {}, << >>)
    /\ last = NoPass
    /\ steps = 0
    /\ \E fw \in Frameworks, n \in Sizes : drv = DrvStart(fw, n)

\* a loop entered whatever the framework
EnterLoopAnyFramework(d) ==
    [d EXCEPT !.pc = "loop", !.iter_times = Max(iter_times(d.n), 1), !.n0 = d.n,
              !.i = 0, !.pos = 1]

\* if graph._attr['framework'] in (Framework.ONNX, Framework.CAFFE): ...
EnterLoop(d) ==
    IF d.fw \in {"ONNX", "CAFFE"}
    THEN IF iter_times(d.n) > 0
         THEN [d EXCEPT !.pc = "loop", !.iter_times = iter_times(d.n), !.n0 = d.n,
                        !.i = 0, !.pos = 1]
         ELSE [d EXCEPT !.pc = "tail", !.iter_times = iter_times(d.n), !.n0 = d.n, !.k = 1]
    ELSE [d EXCEPT !.pc = "tail", !.k = 1]

PreCall ==
    /\ drv.pc = "pre"
    /\ \E delta \in Deltas(drv) :
         LET d == Returned(drv, delta)
         IN  drv' = IF drv.k < Len(PrePasses) THEN [d EXCEPT !.k = @ + 1] ELSE EnterLoop(d)
    /\ UNCHANGED <<g, last, steps>>

PreRaise ==
    /\ drv.pc = "pre"
    /\ drv' = Escape(drv)
    /\ UNCHANGED <<g, last, steps>>

LoopCall ==
    /\ drv.pc = "loop"
    /\ \E delta \in Deltas(drv) :
         LET d == Returned(drv, delta)
         IN  drv' = IF drv.pos < Len(LoopCalls) THEN [d EXCEPT !.pos = @ + 1] ELSE NextIter(d)
    /\ UNCHANGED <<g, last, steps>>

LoopRaise ==
    /\ drv.pc = "loop"
    /\ drv.excs < MaxExc
    /\ drv' = Handler(drv)
    /\ UNCHANGED <<g, last, steps>>

TailCall ==
    /\ drv.pc = "tail"
    /\ \E delta \in Deltas(drv) :
         LET d == [Returned(drv, delta) EXCEPT !.ran = Append(@, TailPasses[drv.k])]
         IN  drv' = IF drv.k < Len(TailPasses) THEN [d EXCEPT !.k = @ + 1]
                    ELSE [d EXCEPT !.pc = "done"]
    /\ UNCHANGED <<g, last, steps>>

TailRaise ==
    /\ drv.pc = "tail"
    /\ drv' = Escape(drv)
    /\ UNCHANGED <<g, last, steps>>

DNext == PreCall \/ PreRaise \/ LoopCall \/ LoopRaise \/ TailCall \/ TailRaise

DriverSpec == DInit /\ [][DNext]_vars

-----------------------------------------------------------------------------
(* The pooling passes of back_passes in call order: rename_pool, then      *)
(* merge_nhwc_maxpoolargmax, merge_hwc_maxpoolargmax and                   *)
(* merge_hw_maxpoolargmax.  The passes called in between rename the other  *)
(* nodes of the chains; the graphs hold them under their Arm kinds.        *)

Elt(method) == [Op("ArmEltwise") EXCEPT !.method = method]

Const(v) == [Op("Constant") EXCEPT !.value = v]

\* cast1 3 -> sub 4 -> div 5 -> add 6 -> cast2 7, constants 8, 9, 10
NhwcNodes(o, md, v) ==
    3 :> Op("ArmCast") @@ 4 :> Elt(md) @@ 5 :> OpOk("ArmDiv", o) @@ 6 :> Elt("ADD")
      @@ 7 :> Op("ArmCast") @@ 8 :> Const(v) @@ 9 :> Const(NhwcDiv) @@ 10 :> Const(NhwcAdd)

NhwcEdges ==
    {E0(1, 3, 1, 0), E0(3, 4, 0, 0), E0(8, 4, 0, 1), E0(4, 5, 0, 0), E0(9, 5, 0, 1),
     E0(5, 6, 0, 0), E0(10, 6, 0, 1), E0(6, 7, 0, 0)}

\* transpose 11 -> cast 12 -> sub 13, constant 14 -> tile 15 -> sub 13
HwNodes(md, v) ==
    11 :> Op("ArmTranspose") @@ 12 :> Op("ArmCast") @@ 13 :> Elt(md) @@ 14 :> Const(v)
       @@ 15 :> Op("ArmTile")

HwEdges(from, sp) ==
    {E0(from, 11, sp, 0), E0(11, 12, 0, 0), E0(12, 13, 0, 0), E0(14, 15, 0, 0),
     E0(15, 13, 0, 1)}

\* a pool 1 whose first output feeds Relu 2 and whose indices (out-port 1)
\* feed the arithmetic of one of the layouts; outs lists the outputs
SeedsPool ==
    { MkG( (1 :> [Op("MaxPool") EXCEPT !.ok = o1, !.rank = rk] @@ 2 :> Op("Relu"))
             @@ NhwcNodes(o, md, v) @@ (IF hw THEN HwNodes("SUB", HwSub) ELSE << >>),
           {E0(1, 2, 0, 0)} \cup NhwcEdges \cup (IF hw THEN HwEdges(7, 0) ELSE {}),
           IF hw THEN <<2, 13>> ELSE outs )
      : o1 \in BOOLEAN, rk \in {4, 5}, o \in BOOLEAN, md \in {"SUB", "MUL"},
        v \in {NhwcSub, 0}, hw \in BOOLEAN, outs \in {<<2, 7>>, <<1, 7>>, <<7, 1>>} }
    \cup
    { MkG( (1 :> [Op("MaxPool") EXCEPT !.ok = o1] @@ 2 :> Op("Relu")
              @@ 3 :> [Const(v) EXCEPT !.ok = o] @@ 4 :> Elt(md) @@ 5 :> Op("ArmCast"))
             @@ (IF tail THEN 6 :> Op("Relu") ELSE << >>),
           {E0(1, 2, 0, 0), E0(1, 4, 1, 0), E0(3, 4, 0, 1), E0(4, 5, 0, 0)}
             \cup (IF tail THEN {E0(5, 6, 0, 0)} ELSE {}),
           IF tail THEN <<2, 6>> ELSE outs )
      : o1 \in BOOLEAN, o \in BOOLEAN, md \in {"SUB", "MUL"}, v \in {HwcSub, 0},
        tail \in BOOLEAN, outs \in {<<2, 5>>, <<1, 5>>, <<5, 1>>} }
    \cup
    { MkG( (1 :> Op("MaxPool") @@ 2 :> Op("Relu")) @@ HwNodes(md, v),
           {E0(1, 2, 0, 0)} \cup HwEdges(1, 1),
           outs )
      : md \in {"SUB", "MUL"}, v \in {HwSub, 0}, outs \in {<<2, 13>>, <<12, 13>>} }
    \cup
    { MkG( 1 :> [Op(k) EXCEPT !.ok = o1, !.value = pv] @@ 2 :> Op("Relu"),
           {E0(1, 2, 0, 0)},
           <<2>> )
      : k \in SeqSet(PoolKinds), o1 \in BOOLEAN, pv \in {1, 2} }

PoolStart == [pc |-> "pool", k |-> 1]

PoolInit ==
    /\ g \in SeedsPool
    /\ last = NoPass
    /\ steps = 0
    /\ drv = PoolStart

\* the k-th of the pooling passes returns r
PoolCall(k, p, r) ==
    /\ drv.pc = "pool"
    /\ drv.k = k
    /\ ~last.exc
    /\ g' = r.g
    /\ last' = [pass |-> p, pre |-> g, exc |-> r.exc, crn |-> r.crn,
                inloop |-> r.inloop, diag |-> r.diag, partial |-> r.partial,
                hit |-> r.hit, plugin |-> r.plugin, arg |-> r.arg]
    /\ steps' = steps + 1
    /\ drv' = [drv EXCEPT !.k = k + 1]

Pool_rename_pool == PoolCall(1, "rename_pool", rename_pool(g))

Pool_merge_nhwc_maxpoolargmax ==
    PoolCall(2, "merge_nhwc_maxpoolargmax", merge_nhwc_maxpoolargmax(g))

Pool_merge_hwc_maxpoolargmax ==
    PoolCall(3, "merge_hwc_maxpoolargmax", merge_hwc_maxpoolargmax(g))

Pool_merge_hw_maxpoolargmax ==
    PoolCall(4, "merge_hw_maxpoolargmax", merge_hw_maxpoolargmax(g))

PoolNext ==
    \/ Pool_rename_pool
    \/ Pool_merge_nhwc_maxpoolargmax
    \/ Pool_merge_hwc_maxpoolargmax
    \/ Pool_merge_hw_maxpoolargmax

PoolSpec == PoolInit /\ [][PoolNext]_vars

-----------------------------------------------------------------------------
(* decompose_loop on graphs with one Loop.  Node 3 is the trip count, 4    *)
(* the condition, 5 the Loop, 6 and 7 its body, 8 and 9 its consumers; the *)
(* body's main output feeds in-port 2 of the Loop.                         *)

MaxCount == 3      \* the largest trip count

LoopShapes == {"one", "two", "chain", "chain2", "const", "iter"}

BodyNodes(shape) == IF shape \in {"one", "two", "const"} THEN {6} ELSE {6, 7}

BodyMain(shape) == IF shape \in {"one", "two", "const"} THEN 6 ELSE 7

BodyOps(shape) ==
    CASE shape = "one"    -> 1 :> Op("Input") @@ 6 :> Op("Relu")
      [] shape = "two"    -> 1 :> Op("Input") @@ 2 :> Op("Input") @@ 6 :> Op("Add")
      [] shape = "chain"  -> 1 :> Op("Input") @@ 6 :> Op("Relu") @@ 7 :> Op("Sigmoid")
      [] shape = "chain2" -> 1 :> Op("Input") @@ 2 :> Op("Input") @@ 6 :> Op("Relu")
                               @@ 7 :> Op("Add")
      [] shape = "const"  -> 6 :> Op("Cast")
      [] shape = "iter"   -> 1 :> Op("Input") @@ 6 :> Op("Cast") @@ 7 :> Op("Add")

BodyEdges(shape) ==
    CASE shape = "one"    -> {E0(1, 6, 0, 0)}
      [] shape = "two"    -> {E0(1, 6, 0, 0), E0(2, 6, 0, 1)}
      [] shape = "chain"  -> {E0(1, 6, 0, 0), E0(6, 7, 0, 0)}
      [] shape = "chain2" -> {E0(1, 6, 0, 0), E0(6, 7, 0, 0), E0(2, 7, 0, 1)}
      [] shape = "const"  -> {E0(3, 6, 0, 0)}
      [] shape = "iter"   -> {E0(3, 6, 0, 0), E0(1, 7, 0, 0), E0(6, 7, 0, 1)}

SeedsLoop ==
    { [ MkG( BodyOps(shape)
               @@ 3 :> [Op("Constant") EXCEPT !.value = count]
               @@ 4 :> [Op("Constant") EXCEPT !.value = cond]
               @@ 5 :> [Op("Loop") EXCEPT
                           !.body = BodyNodes(shape), !.root_in = 1,
                           !.body_outs = IF three
                                         THEN <<BodyMain(shape), BodyMain(shape), BodyMain(shape)>>
                                         ELSE <<BodyMain(shape), BodyMain(shape)>>]
               @@ 8 :> Op("Relu")
               @@ (IF two THEN 9 :> Op("Relu") ELSE << >>),
             BodyEdges(shape)
               \cup {E0(3, 5, 0, 0), E0(4, 5, 0, 1), E0(BodyMain(shape), 5, 0, 2), E0(5, 8, 0, 0)}
               \cup (IF two THEN {E0(5, 9, 1, 0)} ELSE {}),
             (IF out THEN <<5>> ELSE << >>) \o <<8>> \o (IF two THEN <<9>> ELSE << >>) )
        EXCEPT !.sub = [set |-> sub, names |-> {}] ]
      : shape \in LoopShapes, count \in 1..MaxCount, cond \in {0, 1}, three \in BOOLEAN,
        two \in BOOLEAN, out \in BOOLEAN, sub \in BOOLEAN }

LoopInit ==
    /\ g \in SeedsLoop
    /\ last = NoPass
    /\ steps = 0
    /\ drv = DrvIdle

\* the names one unrolling of the Loop needs
LoopNeed(gr, loop) ==
    LET ins == sorted_in_edges(gr, loop)
        count == IF ins = << >> THEN 0 ELSE TensorValue(gr, ins[1])
    IN  1 + 2 * (IF count > 1 THEN count - 1 ELSE 0) * Cardinality(gr.node[loop].body)

Loop_decompose_loop ==
    /\ \A loop \in KindNodes(g, "Loop") : Room(g, LoopNeed(g, loop))
    /\ \E order \in Orders(SeqSet(g.outs) \ g.sub.names) :
           \E r \in {decompose_loop(g, order)} : Apply("decompose_loop", r)

LoopNext == Loop_decompose_loop

LoopSpec == LoopInit /\ [][LoopNext]_vars

-----------------------------------------------------------------------------
(* detection_post_process: the image size attributes of the nodes it       *)
(* creates.  The options are a string-keyed map of strings; a number is a  *)
(* string of decimal digits, written here as the sequence of its digits.   *)
(* The checks on the outputs of the graph (their number, their shapes,     *)
(* their producers) are the flag valid; the edges are left out, and of    *)
(* the nodes without image size attributes only the region nodes and the  *)
(* first Out node are listed.                                              *)

\* int(s) for a string of decimal digits
RECURSIVE int(_)
int(s) == IF s = <<>> THEN 0 ELSE 10 * int(SubSeq(s, 1, Len(s) - 1)) + s[Len(s)]

\* int(params.get(key, default)) with a numeric default
params_get_int(params, key, default) ==
    IF key \in DOMAIN params THEN int(params[key]) ELSE default

\* params.get('detection_postprocess', '').upper()
upper(s) ==
    CASE s = "ssd" -> "SSD"
      [] s = "yolo3_tiny" -> "YOLO3_TINY"
      [] OTHER -> s

detection_mode(params) ==
    IF "detection_postprocess" \in DOMAIN params
    THEN upper(params["detection_postprocess"]) ELSE ""

ImageAttrs(w, h) == [image_width |-> w, image_height |-> h]

\* a created node: its type and its image size attributes, if it has any
Created(kind, attrs) == [kind |-> kind, sized |-> TRUE, attrs |-> attrs]

CreatedPlain(kind) == [kind |-> kind, sized |-> FALSE, attrs |-> ImageAttrs(0, 0)]

\* replace_obj('ArmNMS', nms_attr), then four Out nodes with the copied
\* attributes of the nms node
nms_nodes(attrs) ==
    <<Created("ArmNMS", attrs)>> \o [i \in 1..4 |-> Created("Out", attrs)]

\* the nodes detection_post_process creates, in the order it creates them
detection_post_process(params, valid) ==
    LET mode == detection_mode(params)
    IN  IF ~valid THEN <<>>
        ELSE IF mode \in {"SSD", "SSD_RESNET"}
        THEN LET image_width == params_get_int(params, "image_width", 300)
                 image_height == params_get_int(params, "image_width", 300)
             IN  <<Created("ArmDecodeBox", ImageAttrs(image_width, image_height)),
                   CreatedPlain("Out")>>
                   \o nms_nodes(ImageAttrs(image_width, image_height))
        ELSE IF mode = "YOLO2"
        THEN <<CreatedPlain("ArmRegion"), CreatedPlain("Out")>>
               \o nms_nodes(ImageAttrs(params_get_int(params, "image_width", 416),
                                       params_get_int(params, "image_width", 416)))
        ELSE IF mode \in {"YOLO3_TINY", "YOLO3_FULL"}
        THEN <<CreatedPlain("ArmRegion"), CreatedPlain("ArmRegion"),
               CreatedPlain("ArmRegionFuse")>>
               \o nms_nodes(ImageAttrs(params_get_int(params, "image_width", 416),
                                       params_get_int(params, "image_width", 416)))
        ELSE IF mode = "CAFFE_FASTERRCNN"
        THEN LET img_width == params_get_int(params, "image_width", 224)
                 img_height == params_get_int(params, "image_height", 224)
             IN  <<Created("ArmDetectionOutput", ImageAttrs(img_width, img_height)),
                   CreatedPlain("Out")>>
                   \o nms_nodes(ImageAttrs(params_get_int(params, "image_width", 224),
                                           params_get_int(params, "image_width", 224)))
        ELSE <<>>

\* the values of the detection_postprocess option; "" stands for no such key
DetectModes ==
    {"", "SSD", "ssd", "SSD_RESNET", "YOLO2", "YOLO3_TINY", "yolo3_tiny", "YOLO3_FULL",
     "CAFFE_FASTERRCNN", "NONE"}

\* the values of the image_width and image_height options; the empty
\* sequence stands for no such key
ImageOptions == {<<>>, <<2, 2, 4>>, <<3, 0, 0>>, <<4, 1, 6>>, <<6, 4, 0>>}

\* a map with the key when a value is given
Option(key, v) == IF v = <<>> THEN <<>> ELSE key :> v

DetectStart(mode, w, h, valid) ==
    [pc |-> "detect",
     params |-> (IF mode = "" THEN <<>> ELSE "detection_postprocess" :> mode)
                  @@ Option("image_width", w) @@ Option("image_height", h),
     valid |-> valid,
     created |-> <<>>]

DetectInit ==
    /\ g = MkG(<< >>, {}, << >>)
    /\ last = NoPass
    /\ steps = 0
    /\ \E mode \in DetectModes, w \in ImageOptions, h \in ImageOptions, valid \in BOOLEAN :
         drv = DetectStart(mode, w, h, valid)

Do_detection_post_process ==
    /\ drv.pc = "detect"
    /\ drv' = [drv EXCEPT !.pc = "detected",
                          !.created = detection_post_process(drv.params, drv.valid)]
    /\ UNCHANGED <<g, last, steps>>

DetectNext == Do_detection_post_process

DetectSpec == DetectInit /\ [][DetectNext]_vars

-----------------------------------------------------------------------------
(* Properties.                                                             *)

\* the pass that ran last returned normally and applied at least one rewrite
Rewrote == last.pass # "" /\ ~last.exc /\ last.hit > 0

\* C1: after a pass that applied at least one rewrite, every name in
\* output_names is the name of a node of the graph.
C1_OutputNamesPresent == Rewrote => SeqSet(g.outs) \subseteq Nodes(g)

\* the kinds a single-node pass matches
Targets(p) ==
    CASE p = "rename_cum" -> {"CumProd", "CumSum"}
      [] p = "rename_reduce" -> SeqSet(ReduceKinds)
      [] p = "rename_moments" -> {"Moments"}
      [] p = "merge_square2" -> {"Mul"}
      [] OTHER -> {}

\* the nodes the pass that ran last matched in the graph it started on
Matched == {n \in Nodes(last.pre) : Kind(last.pre, n) \in Targets(last.pass)}

\* C4: a pass that matched a node whose operator object is None returns
\* normally and has reported a diagnostic.
C4_NoneReportedAndSkipped ==
    (\E n \in Matched : ObjNone(last.pre, n)) => (~last.exc /\ last.diag > 0)

\* C5: a pass whose only match was abandoned with a diagnostic leaves the
\* graph (nodes, edges, operator kinds, output_names) as it found it.
C5_AbandonedMatchUntouched ==
    (Cardinality(Matched) = 1 /\ ~last.exc /\ last.diag > 0) => g = last.pre

\* the out-edges of n as (destination, src_out_port, dst_in_port) triples
OutAttrs(gr, n) == {<<e.dst, e.sp, e.dp>> : e \in OutEdges(gr, n)}

\* Sqrt s -> Reciprocal rc, one connecting edge, rc the only consumer of s
RsqrtPair(gr, s, rc) ==
    /\ Kind(gr, s) = "Sqrt" /\ Kind(gr, rc) = "Reciprocal"
    /\ ~ObjNone(gr, s) /\ ~ObjNone(gr, rc)
    /\ Cardinality(OutEdges(gr, s)) = 1
    /\ \E e \in OutEdges(gr, s) : e.dst = rc

\* C6: merge_rsqrt turns Sqrt -> Reciprocal (single edge, no other consumer
\* of Sqrt) into the Sqrt node with kind ArmRsqrt, Sqrt's in-edges and
\* Reciprocal's out-edges with their port attributes; Reciprocal is gone.
C6_RsqrtFusion ==
    last.pass = "merge_rsqrt" =>
        \A s \in Nodes(last.pre), rc \in Nodes(last.pre) :
            RsqrtPair(last.pre, s, rc) =>
                /\ ~last.exc
                /\ rc \notin Nodes(g)
                /\ s \in Nodes(g)
                /\ Kind(g, s) = "ArmRsqrt"
                /\ InEdges(g, s) = InEdges(last.pre, s)
                /\ OutAttrs(g, s) = OutAttrs(last.pre, rc)
                /\ Cardinality(OutEdges(g, s)) = Cardinality(OutEdges(last.pre, rc))

C6_Witness ==
    /\ last.pass = "merge_rsqrt"
    /\ \E s \in Nodes(last.pre), rc \in Nodes(last.pre) :
         /\ RsqrtPair(last.pre, s, rc)
         /\ Cardinality(OutEdges(last.pre, rc)) = 2
         /\ rc \in SeqSet(last.pre.outs)

\* a valid Mul with two in-edges
BinaryMul(gr, n) ==
    Kind(gr, n) = "Mul" /\ ~ObjNone(gr, n) /\ Cardinality(InEdges(gr, n)) = 2

\* both in-edges of n come from one source node and one src_out_port
SameInput(gr, n) ==
    \A e1 \in InEdges(gr, n), e2 \in InEdges(gr, n) : e1.src = e2.src /\ e1.sp = e2.sp

\* C7: merge_square2 turns Mul(x, x) into ArmSquare with one in-edge from x;
\* a Mul whose inputs differ in node or port is left as it was.
C7_SquareDetection ==
    last.pass = "merge_square2" =>
        \A n \in Nodes(last.pre) : BinaryMul(last.pre, n) =>
            /\ ~last.exc
            /\ n \in Nodes(g)
            /\ IF SameInput(last.pre, n)
               THEN /\ Kind(g, n) = "ArmSquare"
                    /\ Cardinality(InEdges(g, n)) = 1
                    /\ \A e \in InEdges(g, n) : \E e0 \in InEdges(last.pre, n) :
                           e.src = e0.src /\ e.sp = e0.sp
               ELSE /\ g.node[n] = last.pre.node[n]
                    /\ InEdges(g, n) = InEdges(last.pre, n)

C7_Witness ==
    /\ last.pass = "merge_square2"
    /\ \E n \in Nodes(last.pre) : BinaryMul(last.pre, n) /\ SameInput(last.pre, n)
    /\ \E n \in Nodes(g) : Kind(g, n) = "ArmSquare"

\* C8: after a pass, no two in-edges of a node with a non-variadic operator
\* carry the same dst_in_port.
C8_PortsUnique ==
    \A n \in Nodes(g) : ~Variadic(Kind(g, n)) =>
        \A e1 \in InEdges(g, n), e2 \in InEdges(g, n) : e1 # e2 => e1.dp # e2.dp

C8_Witness ==
    /\ last.pass = "merge_qmatmul"
    /\ last.hit > 0
    /\ \E n \in Nodes(g) : Kind(g, n) = "QLinearMatMul" /\ Cardinality(InEdges(g, n)) = 8

\* C9: after a pass, the dst_in_port values at a node with a non-variadic
\* operator are 0..k-1, k the number of its in-edges.
C9_PortsGapFree ==
    \A n \in Nodes(g) : ~Variadic(Kind(g, n)) =>
        {e.dp : e \in InEdges(g, n)} = 0..(Cardinality(InEdges(g, n)) - 1)

\* C10: one execution of a pass calls clear_redundant_nodes at most once,
\* and not inside its loop over the matches.
C10_CleanupOncePerPass == last.crn <= 1 /\ ~last.inloop

\* clamp(n / 15, 15, 20)
Clamp(n) == IF n \div 15 < 15 THEN 15 ELSE IF n \div 15 > 20 THEN 20 ELSE n \div 15

\* the loop has been entered (the framework is ONNX or CAFFE)
Entered(d) == d.pc \in {"loop", "tail", "done", "raised"} /\ d.iter_times > 0

C2_Step ==
    /\ Entered(drv') =>
         /\ drv'.iter_times = Clamp(drv'.n0)
         /\ drv'.iter_times \in 15..20
         /\ (drv'.n0 = 300 => drv'.iter_times = 20)
         /\ drv'.i <= drv'.iter_times
         /\ (drv'.pc = "loop" => drv'.i < drv'.iter_times)
    /\ drv.pc = "loop" => (drv'.iter_times = drv.iter_times /\ drv'.n0 = drv.n0)

\* C2: the loop runs at most clamp(n/15, 15, 20) iterations, n the node
\* count when the loop is entered; the bound is between 15 and 20, is 20 for
\* n = 300, and does not change while the loop runs.
C2_LoopBound == [][C2_Step]_vars

C2_Witness ==
    /\ drv.pc = "tail"
    /\ drv.n0 = 299
    /\ drv.n > 300
    /\ drv.i = 19

C3_Step ==
    /\ (drv.pc = "loop" /\ drv'.excs = drv.excs + 1) =>
         /\ drv'.warns = drv.warns + 1
         /\ drv'.infers = drv.infers + 1
         /\ drv'.i = drv.i + 1
         /\ drv'.pos = 1
         /\ drv'.pc = IF drv.i + 1 < drv.iter_times THEN "loop" ELSE "tail"
    /\ drv'.pc = "raised" => drv'.from \in {"pre", "tail"}
    /\ drv'.infers = drv'.excs
    /\ drv'.pc = "done" => drv'.ran = TailPasses

\* C3: an exception raised by a call inside the loop is logged, infer(graph)
\* is called once, the next iteration (or the code after the loop) follows;
\* no such exception leaves back_passes, and back_passes ends with the three
\* passes after the loop having run.
C3_LoopRecovers == [][C3_Step]_vars

C3_Witness ==
    /\ drv.pc = "done"
    /\ drv.excs = 2
    /\ drv.infers = 2
    /\ drv.ran = TailPasses

\* C11: a pass calls clear_redundant_nodes in an execution exactly when that
\* execution rewrote at least one match.
C11_CleanupIffRewritten ==
    (last.pass # "" /\ ~last.exc) => (last.crn > 0 <=> last.hit > 0)

\* the passes of the renaming/lowering phase
RenamePasses ==
    {
     "rename_argminmax", "rename_bitwise", "rename_cum", "rename_bn",
     "rename_cast", "rename_compress", "rename_conv", "rename_gemm",
     "rename_generate_proposals", "rename_gridsample", "rename_logical",
     "rename_matmulinteger", "rename_maxunpool", "rename_moments",
     "rename_mul_add_max_min", "rename_normalization", "rename_onehot",
     "rename_pad", "rename_pool", "rename_reduce", "rename_reshape",
     "rename_resize", "rename_roipool", "rename_roialign",
     "rename_scatternd", "rename_scatterel", "rename_slice",
     "rename_softmax", "rename_tile", "rename_topk", "rename_where",
     "simple_rename:Abs", "simple_rename:AccidentalHits",
     "simple_rename:Acos", "simple_rename:Acosh", "simple_rename:Asin",
     "simple_rename:Asinh", "simple_rename:BatchGather",
     "simple_rename:BitShift", "simple_rename:BNLL", "simple_rename:Ceil",
     "simple_rename:ChannelShuffle", "simple_rename:Concat",
     "simple_rename:Cos", "simple_rename:Cosh",
     "simple_rename:CropAndResize", "simple_rename:CTCGreedyDecoder",
     "simple_rename:DepthToSpace", "simple_rename:Div", "simple_rename:Erf",
     "simple_rename:Exp", "simple_rename:Erosion", "simple_rename:Dilation",
     "simple_rename:Filter", "simple_rename:Floor",
     "simple_rename:FullyConnected", "simple_rename:Gather",
     "simple_rename:GatherND", "simple_rename:GatherElements",
     "simple_rename:Input", "simple_rename:InstanceNormalization",
     "simple_rename:InTopK", "simple_rename:LayerNorm", "simple_rename:Log",
     "simple_rename:LogSoftmax", "simple_rename:LRN", "simple_rename:MatMul",
     "simple_rename:MeanVarianceNormalization", "simple_rename:Meshgrid",
     "simple_rename:Mod", "simple_rename:Neg", "simple_rename:Pow",
     "simple_rename:ReverseSequence", "simple_rename:Reciprocal",
     "simple_rename:Round", "simple_rename:SegmentReduce",
     "simple_rename:Sign", "simple_rename:Sin", "simple_rename:Sinh",
     "simple_rename:SpaceToDepth", "simple_rename:Split",
     "simple_rename:Sqrt", "simple_rename:Tan", "simple_rename:Transpose",
     "simple_rename:ZeroFraction" }

\* the phase of a pass by what the pass does; 0: none of the six phases
Phase(p) ==
    CASE p \in {"broadcast_prelu", "multidirectional_broadcasting", "split_mean", "split_sum",
                "split_crd_d2s", "split_expand"} -> 1
      [] p \in {"convert_uni_gru", "convert_bi_gru", "convert_uni_lstm", "convert_bi_lstm"} -> 2
      [] p \in {"merge_b2s", "merge_b2s_nd", "merge_s2b", "merge_s2b_nd", "merge_s2b_pool_b2s",
                "merge_rsqrt", "merge_not_equal", "merge_greater_less_equal_or"} -> 3
      [] p \in RenamePasses -> 4
      [] p \in {"fuse_relu", "rename_activations"} -> 5
      [] p \in {"detection_post_process"} -> 6
      [] OTHER -> 0

\* the passes that run outside the block of their phase
Stragglers == {"split_crd_d2s", "split_expand", "merge_s2b_pool_b2s"}

\* the calls before the loop that have returned / that are still to come
Done(d) == IF d.pc = "pre" THEN 1..(d.k - 1) ELSE 1..Len(PrePasses)

Pending(d) == IF d.pc = "pre" THEN d.k..Len(PrePasses) ELSE {}

\* pass p may run before pass q
InOrder(p, q) == Phase(p) = 0 \/ Phase(q) = 0 \/ Phase(p) <= Phase(q)

Calling(d) ==
    CASE d.pc = "pre" -> PrePasses[d.k]
      [] d.pc = "loop" -> LoopCalls[d.pos]
      [] d.pc = "tail" -> TailPasses[d.k]
      [] OTHER -> ""

Materialize == {"fuse_const", "remove_const"}

Legalize == {"insert_cast_if_must", "remove_redundant_cast"}

\* C13 as stated: fuse_const, remove_const, insert_cast_if_must and
\* remove_redundant_cast are called only after the layout-cleanup loop has
\* finished.
C13_FinalAfterLoop ==
    Calling(drv) \in Materialize \cup Legalize => drv.pc = "tail"

\* C13 amended: insert_cast_if_must and remove_redundant_cast are called only
\* after the loop has finished; fuse_const and remove_const are called only
\* before the loop begins, and both have been called when it begins.
C13_CastAfterLoop ==
    /\ Calling(drv) \in Legalize => drv.pc = "tail"
    /\ Calling(drv) \in Materialize => drv.pc = "pre"
    /\ drv.pc = "loop" =>
         \A p \in Materialize : \E i \in Done(drv) : PrePasses[i] = p

C13_Witness ==
    /\ drv.pc = "tail"
    /\ Calling(drv) = "remove_redundant_cast"
    /\ drv.iter_times > 0
    /\ drv.i = drv.iter_times
    /\ drv.ran = <<"insert_cast_if_must">>

\* the nodes fed by the out-ports of n in graph gr, in out-port order
Successors(gr, n) ==
    LET es == SortOut(OutEdges(gr, n))
    IN  [i \in 1..Len(es) |-> es[i].dst]

\* a Moments node the pass gives post-Reshapes: keepdims is false and the
\* input shape is known
Replaced(gr, n) ==
    /\ n \in Nodes(gr)
    /\ Kind(gr, n) = "Moments"
    /\ ~ObjNone(gr, n)
    /\ ~gr.node[n].keepdims
    /\ Len(sorted_in_edges(gr, n)) >= 1
    /\ gr.node[n].shapes
    /\ get_out_ports(gr, n) # <<>>

\* output_names with every replaced name giving its place to its successors
RECURSIVE ReplacedInPlace(_, _, _)
ReplacedInPlace(pre, post, names) ==
    IF names = <<>> THEN <<>>
    ELSE (IF Replaced(pre, Head(names)) THEN Successors(post, Head(names))
          ELSE <<Head(names)>>)
         \o ReplacedInPlace(pre, post, Tail(names))

\* C14: after rename_moments, output_names is the list it started with, each
\* replaced Moments name giving its position to its post-Reshapes in out-port
\* order and every other name keeping its value and its place in the order.
C14_SuccessorsInPlace ==
    (last.pass = "rename_moments" /\ ~last.exc)
        => g.outs = ReplacedInPlace(last.pre, g, last.pre.outs)

\* a path joins the transpose and the constant of match m, in one direction
\* or the other
PathJoins(gr, m) == m[1] \in Ancestors(gr, {m[2]}) \/ m[2] \in Ancestors(gr, {m[1]})

\* the conditions of the rewrite other than reachability hold for match m
Sinkable(gr, m) ==
    /\ ~ObjNone(gr, m[1]) /\ ~ObjNone(gr, m[2]) /\ ~ObjNone(gr, m[3])
    /\ Len(sorted_out_edges(gr, m[2])) = 1
    /\ \/ gr.node[m[1]].rank = gr.node[m[2]].rank
       \/ Kind(gr, m[3]) = "ArmPow" /\ gr.node[m[2]].rank = 1
    /\ NumInPorts(Kind(gr, m[3])) = 2
    /\ Len(sorted_in_edges(gr, m[3])) = 2
    /\ Len(get_out_ports(gr, m[3])) = 1
    /\ sorted_in_edges(gr, m[1]) # <<>>

\* the part of the graph a rewrite of match m would touch is as it was
Untouched(pre, post, m) ==
    /\ {m[1], m[2], m[3]} \subseteq Nodes(post)
    /\ \A n \in {m[1], m[2], m[3]} : post.node[n] = pre.node[n]
    /\ InEdges(post, m[3]) = InEdges(pre, m[3])
    /\ OutEdges(post, m[3]) = OutEdges(pre, m[3])
    /\ \A i \in 1..Len(pre.outs) :
         pre.outs[i] = m[3] => (i <= Len(post.outs) /\ post.outs[i] = m[3])

\* the matches of sink_transpose_with_const in the graph it started on
WithConstMatches == SeqSet(with_const_matches(last.pre, UnawareTypes))

\* C15: a match of sink_transpose_with_const whose transpose and constant are
\* joined by a path is skipped: its three nodes keep their objects, its
\* unaware operator keeps its in-edges, its out-edges and its place in
\* output_names, and when every match is such a match the pass changes
\* nothing at all.
C15_PathSkipsMatch ==
    (last.pass = "sink_transpose_with_const" /\ ~last.exc) =>
        /\ \A m \in WithConstMatches :
               PathJoins(last.pre, m) => Untouched(last.pre, g, m)
        /\ (\A m \in WithConstMatches : PathJoins(last.pre, m))
               => (g = last.pre /\ last.hit = 0 /\ last.crn = 0)

\* a match that only the path keeps from being rewritten is skipped, in a pass
\* that rewrites another match
C15_Witness ==
    /\ last.pass = "sink_transpose_with_const"
    /\ ~last.exc
    /\ last.hit > 0
    /\ \E m \in WithConstMatches :
         /\ PathJoins(last.pre, m)
         /\ Sinkable(last.pre, m)
         /\ Untouched(last.pre, g, m)

\* the value the image size attribute key must have: the option when it is
\* given, the default of the mode otherwise
ModeDefault(mode) ==
    CASE mode \in {"SSD", "SSD_RESNET"} -> 300
      [] mode \in {"YOLO2", "YOLO3_TINY", "YOLO3_FULL"} -> 416
      [] OTHER -> 224

OptionOrDefault(params, key) ==
    IF key \in DOMAIN params THEN int(params[key])
    ELSE ModeDefault(detection_mode(params))

\* C16: every node detection_post_process creates with image size attributes
\* has image_height equal to the image_height option and image_width equal to
\* the image_width option, the default of the mode standing in for a missing
\* key only.
C16_ImageSizeFromOptions ==
    drv.pc = "detected" =>
        \A i \in 1..Len(drv.created) :
            drv.created[i].sized =>
                /\ drv.created[i].attrs.image_width = OptionOrDefault(drv.params, "image_width")
                /\ drv.created[i].attrs.image_height = OptionOrDefault(drv.params, "image_height")

\* the nodes from which a name in output_names can be reached
Live(gr) == Ancestors(gr, SeqSet(gr.outs) \cap Nodes(gr))

Candidates(gr) ==
    {e \in gr.edges : /\ {e.src, e.dst} \subseteq Nodes(gr)
                      /\ Kind(gr, e.src) = "Constant" /\ Kind(gr, e.dst) = "Pow"}

\* those from out-port 0 into in-port 1: the occurrences of the pattern
Occurrences(gr) == {e \in Candidates(gr) : e.sp = 0 /\ e.dp = 1}

AllOk(gr) == \A n \in Nodes(gr) : ~ObjNone(gr, n)

\* the producers and ports of the in-edges of the nodes ns
Feeds(gr, ns) == {<<e.src, e.sp, e.dp>> : e \in {x \in gr.edges : x.dst \in ns}}

\* C19: in merge_b2s the matches that share a fused DepthToSpace with a match
\* already applied are skipped: the pass does not fail, each DepthToSpace is
\* rewritten once at most, and a fused node has the in-edges its first
\* transpose had.
C19_PendingMatchSkipped ==
    (last.pass = "merge_b2s" /\ AllOk(last.pre)) =>
        /\ ~last.exc
        /\ last.hit <= Cardinality(KindNodes(last.pre, "DepthToSpace"))
        /\ \A d \in KindNodes(last.pre, "DepthToSpace") :
               (d \in Nodes(g) /\ Kind(g, d) = "ArmBatchToSpace") =>
                   Feeds(g, {d}) = Feeds(last.pre, {e.src : e \in InEdges(last.pre, d)})

\* the matches sink_single_transpose rewrites in graph gr
Sinkable1(gr) ==
    {m \in SeqSet(single_transpose_pattern(gr)) :
        /\ ~ObjNone(gr, m[1]) /\ ~ObjNone(gr, m[2])
        /\ Cardinality(OutEdges(gr, m[1])) = 1
        /\ NumInPorts(Kind(gr, m[2])) = 1
        /\ Cardinality({e.sp : e \in OutEdges(gr, m[2])}) = 1
        /\ InEdges(gr, m[2]) # {} /\ gr.node[m[2]].shapes
        /\ InEdges(gr, m[1]) # {}}

\* the transpose T of match m has sunk below the operator U
Sunk(pre, post, m) ==
    LET T == m[1]
        U == m[2]
        tin == sorted_in_edges(pre, T)[1]
        tu == sorted_out_edges(pre, T)[1]
    IN  /\ Cardinality(InEdges(post, U)) = 1
        /\ Feeds(post, {U}) = {<<tin.src, tin.sp, tu.dp>>}
        /\ Cardinality(OutEdges(post, U)) = 1
        /\ \A e \in OutEdges(post, U) : e.dst = T /\ e.sp = 0 /\ e.dp = 0
        /\ InEdges(post, T) = OutEdges(post, U)
        /\ {<<e.dst, e.dp>> : e \in OutEdges(post, T)}
             = {<<e.dst, e.dp>> : e \in OutEdges(pre, U)}
        /\ Cardinality(OutEdges(post, T)) = Cardinality(OutEdges(pre, U))
        /\ \A e \in OutEdges(post, T) : e.sp = 0
        /\ Len(post.outs) = Len(pre.outs)
        /\ \A i \in 1..Len(pre.outs) :
               post.outs[i] = IF pre.outs[i] = U THEN T ELSE pre.outs[i]

\* C20: when sink_single_transpose rewrites its one rewritable match (T, U),
\* T's former producer feeds U on the in-port T fed, U feeds T on a single
\* edge, the former consumers of U are fed by T on the same in-ports, and T
\* takes the place of U in output_names; whatever it rewrites, the pass adds
\* no node and so no transpose.
C20_TransposeSunk ==
    (last.pass = "sink_single_transpose" /\ ~last.exc) =>
        /\ Nodes(g) = Nodes(last.pre)
        /\ KindNodes(g, "ArmTranspose") = KindNodes(last.pre, "ArmTranspose")
        /\ last.hit = Cardinality(Sinkable1(last.pre))
        /\ last.hit = 1 => \A m \in Sinkable1(last.pre) : Sunk(last.pre, g, m)

\* one match has been rewritten whose operator had two consumers and was an
\* output of the graph
C20_Witness ==
    /\ last.pass = "sink_single_transpose"
    /\ ~last.exc
    /\ last.hit = 1
    /\ \E m \in Sinkable1(last.pre) :
         /\ Cardinality(OutEdges(last.pre, m[2])) = 2
         /\ m[2] \in SeqSet(last.pre.outs)
         /\ last.pre.outs[1] = m[2]
         /\ Len(last.pre.outs) > 1
         /\ Sunk(last.pre, g, m)

\* the Input nodes of the graph
Inputs(gr) == KindNodes(gr, "Input") \cup KindNodes(gr, "ArmInput")

\* the Input nodes in determined-sort order, those outside the order last
InputsInOrder(gr) ==
    SortByIndex(determined_sort(gr, gr.outs), Inputs(gr))
      \o SetToSeq(Inputs(gr) \ SeqSet(determined_sort(gr, gr.outs)))

\* the Preprocess nodes of the graph
Preprocessors(gr) == KindNodes(gr, "Preprocess")

SimpleRenames ==
    <<
     <<"Abs", "ArmAbs">>, <<"AccidentalHits", "ArmAccidentalHits">>,
     <<"Acos", "ArmAcos">>, <<"Acosh", "ArmAcosh">>,
     <<"Asin", "ArmAsin">>, <<"Asinh", "ArmAsinh">>,
     <<"BatchGather", "ArmGather">>, <<"BitShift", "ArmBitShift">>,
     <<"BNLL", "ArmBNLL">>, <<"Ceil", "ArmCeil">>,
     <<"ChannelShuffle", "ArmChannelShuffle">>, <<"Concat", "ArmConcat">>,
     <<"Cos", "ArmCosine">>, <<"Cosh", "ArmCosh">>,
     <<"CropAndResize", "ArmCropAndResize">>, <<"Cumprod", "ArmCumprod">>,
     <<"CTCGreedyDecoder", "ArmCTCGreedyDecoder">>, <<"DepthToSpace", "ArmDepthToSpace">>,
     <<"Div", "ArmDiv">>, <<"Erf", "ArmErf">>,
     <<"Exp", "ArmExp">>, <<"Erosion", "ArmErosion">>,
     <<"Dilation", "ArmDilation">>, <<"Filter", "ArmFilter">>,
     <<"Floor", "ArmFloor">>, <<"FullyConnected", "ArmFullyConnected">>,
     <<"Gather", "ArmGather">>, <<"GatherND", "ArmGatherND">>,
     <<"GatherElements", "ArmGatherElements">>, <<"Input", "ArmInput">>,
     <<"InstanceNormalization", "ArmInstanceNorm">>, <<"InTopK", "ArmInTopK">>,
     <<"LayerNorm", "ArmLayerNorm">>, <<"Log", "ArmLog">>,
     <<"LogSoftmax", "ArmLogSoftmax">>, <<"LRN", "ArmLRN">>,
     <<"MatMul", "ArmMatMul">>, <<"MeanVarianceNormalization", "ArmMVN">>,
     <<"Meshgrid", "ArmMeshgrid">>, <<"Mod", "ArmMod">>,
     <<"Neg", "ArmNegative">>, <<"Pow", "ArmPow">>,
     <<"ReverseSequence", "ArmReverseSequence">>, <<"Reciprocal", "ArmReciprocal">>,
     <<"Round", "ArmRound">>, <<"SegmentReduce", "ArmSegmentReduce">>,
     <<"Sign", "ArmSign">>, <<"Sin", "ArmSine">>,
     <<"Sinh", "ArmSinh">>, <<"SpaceToDepth", "ArmSpaceToDepth">>,
     <<"Split", "ArmSplit">>, <<"Sqrt", "ArmSqrt">>,
     <<"Tan", "ArmTan">>, <<"Transpose", "ArmTranspose">>,
     <<"ZeroFraction", "ArmZeroFraction">> >>

\* the pairs of the call named p
SimpleRenamesOf(p) ==
    {SimpleRenames[i] : i \in {j \in 1..Len(SimpleRenames) : "simple_rename:" \o SimpleRenames[j][1] = p}}

\* the kinds the pattern of pass p names
PatternKinds(p) ==
    CASE p = "merge_squared_diff" -> {"Pow", "Sub"}
      [] p = "merge_square" -> {"Constant", "Pow"}
      [] p = "merge_square2" -> {"Mul"}
      [] p \in {"convert_uni_gru", "convert_bi_gru"} -> {"GRU"}
      [] p \in {"convert_uni_lstm", "convert_bi_lstm"} -> {"LSTM"}
      [] p = "merge_b2s" -> {"Transpose", "DepthToSpace"}
      [] p = "merge_b2s_nd" -> {"Reshape", "Transpose", "Slice"}
      [] p = "merge_s2b" -> {"Transpose", "SpaceToDepth", "Pad"}
      [] p = "merge_s2b_nd" -> {"Reshape", "Transpose", "Pad"}
      [] p = "merge_rsqrt" -> {"Sqrt", "Reciprocal"}
      [] p = "merge_not_equal" -> {"Equal", "Not"}
      [] p = "merge_greater_less_equal_or" -> {"Greater", "Less", "Equal", "Or"}
      [] p = "split_crd_d2s" -> {"DepthToSpace"}
      [] p = "split_expand" -> {"Expand", "Constant"}
      [] p = "merge_group_conv" -> {"ArmSplit", "ArmConvolution", "ArmConcat"}
      [] p = "detection_post_process" -> {"ArmMaxRoiPool"}
      [] p = "adjust_pow" -> {"ArmPow"}
      [] p = "merge_nhwc_maxpoolargmax" ->
             {"ArmMaxPoolingWithArgMax", "ArmCast", "ArmEltwise", "ArmDiv", "Constant"}
      [] p = "merge_hwc_maxpoolargmax" ->
             {"ArmMaxPoolingWithArgMax", "ArmCast", "ArmEltwise", "Constant"}
      [] p = "merge_hw_maxpoolargmax" ->
             {"ArmMaxPoolingWithArgMax", "ArmCast", "ArmEltwise", "ArmTile", "ArmTranspose",
              "Constant"}
      [] p = "merge_hw_maxunpool" ->
             {"ArmMaxUnpool", "ArmCast", "ArmEltwise", "ArmTranspose", "Constant"}
      [] p = "merge_s2b_pool_b2s" -> {"ArmSpaceToBatch", "ArmPooling", "ArmBatchToSpace"}
      [] p = "sink_transpose_through_split" -> {"ArmTranspose", "ArmSplit"}
      [] p = "sink_transpose_through_concat" -> {"ArmTranspose", "ArmConcat"}
      [] p = "sink_transpose_through_tile" -> {"ArmTranspose", "ArmTile"}
      [] p \in {"sink_transpose_through_special_reshape", "sink_single_transpose",
                "sink_double_transpose"} -> {"ArmTranspose"}
      [] p = "sink_transpose_with_const" -> {"ArmTranspose", "ArmConstant"}
      [] OTHER -> {}

\* the source-format kinds pass p replaces wherever it finds them
Lowers(p) ==
    CASE p = "rename_cast" -> {"Cast"}
      [] p = "rename_conv" -> {"Conv", "ConvTranspose", "ConvInteger"}
      [] p = "rename_logical" ->
             {"And", "Equal", "Greater", "GreaterOrEqual", "Less", "LessOrEqual", "Not", "Or",
              "Xor"}
      [] p = "rename_maxunpool" -> {"MaxUnpool"}
      [] p = "rename_mul_add_max_min" -> {"Mul", "Add", "Sub", "Max", "Min"}
      [] p = "rename_pad" -> {"Pad"}
      [] p = "rename_pool" -> {"AveragePool", "LpPool", "MaxPool"}
      [] p = "rename_reshape" -> {"Reshape"}
      [] p = "rename_roipool" -> {"MaxRoiPool"}
      [] p = "rename_slice" -> {"Slice"}
      [] p = "rename_tile" -> {"Tile"}
      [] p = "remove_const" -> {"Constant"}
      [] OTHER -> {sr[1] : sr \in SimpleRenamesOf(p)}

\* the Arm kinds pass p gives to the nodes it rewrites
Produces(p) ==
    CASE p = "merge_b2s" \/ p = "merge_b2s_nd" -> {"ArmBatchToSpace"}
      [] p = "merge_s2b" \/ p = "merge_s2b_nd" -> {"ArmSpaceToBatch"}
      [] p = "rename_cast" -> {"ArmCast"}
      [] p = "rename_conv" ->
             {"ArmConvolution", "ArmConvolution3D", "ArmConvTranspose", "ArmConvTranspose3D",
              "ArmConvInteger", "ArmDepthwiseConv"}
      [] p = "rename_maxunpool" -> {"ArmMaxUnpool"}
      [] p = "rename_mul_add_max_min" -> {"ArmEltwise"}
      [] p = "rename_pool" -> {"ArmPooling", "ArmPooling3D", "ArmMaxPoolingWithArgMax"}
      [] p = "rename_roipool" -> {"ArmMaxRoiPool"}
      [] p = "rename_tile" -> {"ArmTile"}
      [] p = "remove_const" -> {"ArmConstant"}
      [] OTHER -> {sr[2] : sr \in SimpleRenamesOf(p)}

\* the kinds of the target format among the kinds the patterns name
ArmPatternKinds ==
    {"ArmSplit", "ArmConvolution", "ArmConcat", "ArmMaxRoiPool", "ArmPow",
     "ArmMaxPoolingWithArgMax", "ArmCast", "ArmEltwise", "ArmDiv", "ArmTile", "ArmTranspose",
     "ArmMaxUnpool", "ArmSpaceToBatch", "ArmPooling", "ArmBatchToSpace", "ArmConstant"}

\* the passes called before the loop that have returned
Returned_passes(d) == {PrePasses[i] : i \in Done(d)}

\* kind K can exist when pass p is about to be called in driver state d
KindCanExist(d, K) ==
    IF K \in ArmPatternKinds
    THEN \E q \in Returned_passes(d) : K \in Produces(q)
    ELSE \A q \in Returned_passes(d) : K \notin Lowers(q)

C28_OtherFrameworksSkipLoop ==
    drv.fw \notin {"ONNX", "CAFFE"} =>
        /\ drv.pc # "loop"
        /\ drv.i = 0 /\ drv.iter_times = 0
        /\ drv.excs = 0 /\ drv.infers = 0
        /\ drv.pc = "tail" => drv.ran = SubSeq(TailPasses, 1, drv.k - 1)
        /\ drv.pc = "done" => drv.ran = TailPasses

C28_Witness ==
    /\ drv.fw = "TFLITE"
    /\ drv.pc = "done"
    /\ drv.ran = <<"insert_cast_if_must", "remove_redundant_cast", "insert_preprocess">>
    /\ drv.i = 0

\* the numbers N of convolutions for which graph gr holds a structure
\* ArmSplit -> N ArmConvolution -> ArmConcat that meets the conditions of the
\* fusion
FusableGroups(gr) ==
    {N \in 2..MaxGroups :
        \E i \in 1..Len(group_conv_pattern(gr, N)) :
            LET m == group_conv_pattern(gr, N)[i]
            IN  group_conv_fusable(gr, m, N) /\ InEdges(gr, m[1]) # {}}

\* the convolutions of group N in graph gr
GroupConvs(gr, N) ==
    {n \in KindNodes(gr, "ArmConvolution") : gr.node[n].group = N}

\* C29: merge_group_conv(graph, max_groups) fuses the structure
\* ArmSplit -> N ArmConvolution -> ArmConcat for every N from 2 up to and
\* including max_groups: after the pass a convolution of group N stands in
\* its place and no such structure is left.
C29_FusedUpToMaxGroups ==
    (last.pass = "merge_group_conv" /\ ~last.exc) =>
        \A N \in FusableGroups(last.pre) :
            N <= last.arg =>
                /\ GroupConvs(g, N) # {}
                /\ FusableGroups(g) = {}

\* the pooling nodes with indices of graph gr
ArgMaxPools(gr) == KindNodes(gr, "ArmMaxPoolingWithArgMax")

\* flatten_dim may go from a to b in pass p
FlattenDimStep(a, b, p) ==
    \/ a = b
    \/ a = "NHWC" /\ b = "NCHW" /\ p = "merge_nhwc_maxpoolargmax"
    \/ a = "NCHW" /\ b = "HW" /\ p = "merge_hw_maxpoolargmax"
    \/ a = "NHWC" /\ b = "HWC" /\ p = "merge_hwc_maxpoolargmax"

\* C23: the flatten_dim of a MaxPoolingWithArgMax node starts at NHWC and
\* then only goes from NHWC to NCHW (merge_nhwc_maxpoolargmax), from NCHW to
\* HW (merge_hw_maxpoolargmax) or from NHWC to HWC
\* (merge_hwc_maxpoolargmax): NCHW never becomes HWC, and HWC and HW stay.
C23_FlattenDimTransitions ==
    \A n \in ArgMaxPools(g) :
        IF n \in Nodes(last.pre) /\ n \in ArgMaxPools(last.pre)
        THEN FlattenDimStep(last.pre.node[n].flat, g.node[n].flat, last.pass)
        ELSE last.pass = "rename_pool" /\ g.node[n].flat = "NHWC"

C23_Witness ==
    /\ last.pass = "merge_hw_maxpoolargmax"
    /\ \E n \in ArgMaxPools(g) :
          /\ n \in Nodes(last.pre)
          /\ last.pre.node[n].flat = "NCHW"
          /\ g.node[n].flat = "HW"

\* no name is listed twice in output_names
NoDuplicates(outs) == \A i, j \in 1..Len(outs) : outs[i] = outs[j] => i = j

\* C26: output_names without duplicates before merge_rsqrt is without
\* duplicates after it, also when the Sqrt that stays and the Reciprocal that
\* goes were both outputs.
C26_OutputsStayDistinct ==
    (last.pass = "merge_rsqrt" /\ ~last.exc /\ NoDuplicates(last.pre.outs)) =>
        NoDuplicates(g.outs)

QuantizePasses == {"merge_qconv", "merge_qmatmul", "merge_q_multiple", "merge_q_unary"}

\* C24: on a graph whose quantize attribute is false or absent, merge_qconv,
\* merge_qmatmul, merge_q_multiple and merge_q_unary change nothing, report
\* nothing and do not call clear_redundant_nodes.
C24_NoQuantizeNoChange ==
    (last.pass \in QuantizePasses /\ ~last.pre.quantize) =>
        /\ g = last.pre
        /\ last.crn = 0
        /\ last.diag = 0
        /\ last.hit = 0
        /\ ~last.exc

C24_Witness ==
    /\ last.pass = "merge_qconv"
    /\ ~last.pre.quantize
    /\ g = last.pre
    /\ merge_qconv([last.pre EXCEPT !.quantize = TRUE]).hit > 0

\* the pairs <<SequenceConstruct, SequenceAt>> of graph gr whose operators
\* are valid, the construct with at least one input and the position a
\* constant on in-port 1 of the SequenceAt
SequencePairs(gr) ==
    {m \in KindNodes(gr, "SequenceConstruct") \X KindNodes(gr, "SequenceAt") :
        /\ HasEdgeAny(gr, m[1], m[2])
        /\ ~ObjNone(gr, m[1]) /\ ~ObjNone(gr, m[2])
        /\ InEdges(gr, m[1]) # {}
        /\ Len(sorted_in_edges(gr, m[2])) = 2
        /\ SrcIsData(gr, sorted_in_edges(gr, m[2])[2].src)}

\* the position of the pair m
PositionOf(gr, m) == gr.node[sorted_in_edges(gr, m[2])[2].src].value

\* output_names with every entry a replaced by b
Renamed(outs, a, b) == [i \in 1..Len(outs) |-> IF outs[i] = a THEN b ELSE outs[i]]

\* C30: for a SequenceConstruct with n inputs followed by a SequenceAt with
\* constant position p: if -n <= p < n, every consumer of the SequenceAt is
\* fed by the source of input p (p + n if p is negative) on the
\* dst_in_port it had, and the entry of the SequenceAt in output_names is
\* replaced by that source; otherwise the graph and output_names are
\* unchanged.
C30_SequenceAtResolved ==
    (last.pass = "merge_sequence_construct_and_at" /\ ~last.exc) =>
        \A m \in SequencePairs(last.pre) :
            LET pre == last.pre
                ins == sorted_in_edges(pre, m[1])
                n == Len(ins)
                p == PositionOf(pre, m)
                q == IF p < 0 THEN p + n ELSE p
            IN  IF -n <= p /\ p < n
                THEN /\ \A e \in OutEdges(pre, m[2]) :
                           \E f \in g.edges :
                               /\ f.src = ins[q + 1].src /\ f.sp = ins[q + 1].sp
                               /\ f.dst = e.dst /\ f.dp = e.dp
                     /\ \A e \in g.edges : e.src # m[2]
                     /\ g.outs = Renamed(pre.outs, m[2], ins[q + 1].src)
                ELSE Cardinality(SequencePairs(pre)) = 1 => g = pre

C30_Witness ==
    /\ last.pass = "merge_sequence_construct_and_at"
    /\ last.hit = 1
    /\ \E m \in SequencePairs(last.pre) :
          /\ PositionOf(last.pre, m) = -1
          /\ Len(sorted_in_edges(last.pre, m[1])) = 2
          /\ m[2] \in SeqSet(last.pre.outs)
          /\ sorted_in_edges(last.pre, m[1])[2].src \in SeqSet(g.outs)

\* edge e of graph gr is read by an Arm operator on a declared input port
\* (on any port, if the operator is variadic)
DeclaredArmRead(gr, e) ==
    /\ ~ObjNone(gr, e.dst)
    /\ IsArm(Kind(gr, e.dst))
    /\ (Variadic(Kind(gr, e.dst)) \/ e.dp < NumInPorts(Kind(gr, e.dst)))

\* C27: a Constant that at least one Arm operator reads on a declared input
\* port is kept by remove_const and becomes ArmConstant, whichever of its
\* out-edges comes first; only a Constant without such a consumer is deleted.
C27_ConstKeptIfArmReads ==
    (last.pass = "remove_const" /\ ~last.exc) =>
        \A n \in KindNodes(last.pre, "Constant") :
            (~ObjNone(last.pre, n) /\ \E e \in OutEdges(last.pre, n) : DeclaredArmRead(last.pre, e))
                => n \in Nodes(g) /\ Kind(g, n) = "ArmConstant"

NoSelfLoop(gr) == \A e \in gr.edges : e.src # e.dst

Acyclic(gr) == \A e \in gr.edges : ~has_path(gr, e.dst, e.src)

\* decompose_loop unrolled a Loop: the stack of the iterations is new
Unrolled ==
    /\ last.pass = "decompose_loop"
    /\ ~last.exc
    /\ \E n \in Nodes(g) \ Nodes(last.pre) : Kind(g, n) = "ConcatFromSequence"

\* C25: when decompose_loop unrolls a Loop with a constant trip count in an
\* acyclic graph, no edge it adds has the same node as source and
\* destination and the graph it leaves is acyclic, for every loop body,
\* bodies with a node that has several inputs from outside the body included.
C25_UnrolledAcyclic ==
    (Unrolled /\ Acyclic(last.pre)) =>
        /\ \A e \in g.edges \ last.pre.edges : e.src # e.dst
        /\ Acyclic(g)

====
